---- MODULE Spec2Model ----
(***************************************************************************)
(* Model of networks/lora_flux.py (LoRA adapters for FLUX): the adapter    *)
(* modules, the network that owns them, its weight backup / restore /      *)
(* pre-calculation / merge life cycle, the split-qkv (de)serialisation     *)
(* and the discovery of target layers.                                     *)
(*                                                                         *)
(* Tensors are integer matrices (sequences of rows); arithmetic is exact,  *)
(* so floating-point rounding is outside the model.  Names are sequences   *)
(* of tokens: the string "lora_unet_a_b" is <<"lora_unet","a","b">>.       *)
(***************************************************************************)
EXTENDS Integers, Sequences, FiniteSets, TLC

VARIABLES
    net,     \* LoRANetwork: text_encoder_loras, unet_loras, multiplier, modules
    lora,    \* the LoRAInfModule objects, by lora_name
    org,     \* the target layers (org_module), one per adapter, by lora_name
    ret,     \* the last call on the network and how it ended
    phase,   \* history: where the network is in a backup .. restore cycle
    folds,   \* history: number of weight-changing calls made so far
    inp,     \* input of the function under study (function specifications)
    out,     \* its result
    pc       \* position of the function specifications

vars == <<net, lora, org, ret, phase, folds, inp, out, pc>>
lifeVars == <<net, lora, org, ret, phase, folds>>
funVars == <<inp, out, pc>>

(***************************************************************************)
(* Bounds of the model.                                                    *)
(***************************************************************************)
MaxFolds == 2
MaxMultiplier == 2
MaxRank == 2          \* lora_dim ranges over 1..MaxRank
MaxInDim == 2         \* in_features of a target layer
QkvDim == 2           \* stands for the 3072 rows of one q, k or v block
MlpRatio == 4         \* 12288 = MlpRatio * 3072
MaxLr == 2            \* learning rates range over 0..MaxLr (in units of a base rate)
MaxNorm == 2
MaxBlocks == 11        \* block counts range over 0..MaxBlocks: two-digit indices occur

(***************************************************************************)
(* Tensor arithmetic.                                                      *)
(***************************************************************************)
Rows(A) == Len(A)
Cols(A) == IF Len(A) = 0 THEN 0 ELSE Len(A[1])

RECURSIVE SumTo(_, _)
SumTo(f, n) == IF n = 0 THEN 0 ELSE f[n] + SumTo(f, n - 1)

\* up_weight @ down_weight
MatMul(A, B) ==
    [i \in 1..Len(A) |->
        [j \in 1..Cols(B) |-> SumTo([l \in 1..Len(B) |-> A[i][l] * B[l][j]], Len(B))]]

MatAdd(A, B) == [i \in 1..Len(A) |-> [j \in 1..Cols(A) |-> A[i][j] + B[i][j]]]

MatScale(c, A) == [i \in 1..Len(A) |-> [j \in 1..Cols(A) |-> c * A[i][j]]]

\* a Linear layer without bias applied to a vector: W x
MatVec(A, x) == [i \in 1..Len(A) |-> SumTo([l \in 1..Len(x) |-> A[i][l] * x[l]], Len(x))]

VecAdd(u, v) == [i \in 1..Len(u) |-> u[i] + v[i]]

VecScale(c, v) == [i \in 1..Len(v) |-> c * v[i]]

Zeros(r, c) == [i \in 1..r |-> [j \in 1..c |-> 0]]

Range(s) == {s[i] : i \in 1..Len(s)}

IsPrefix(p, s) == Len(p) <= Len(s) /\ SubSeq(s, 1, Len(p)) = p

(***************************************************************************)
(* Names.                                                                  *)
(***************************************************************************)
LORA_PREFIX_FLUX == "lora_unet"
LORA_PREFIX_TEXT_ENCODER_CLIP == "lora_te1"
LORA_PREFIX_TEXT_ENCODER_T5 == "lora_te3"

\* key.startswith(prefix) for a key of a weight dictionary and a family prefix
KeyStartsWith(key, prefix) == Len(key.name) > 0 /\ key.name[1] = prefix

\* `s in key` for the words the code looks for in a key
KeyContains(key, s) ==
    \/ s \in Range(key.name)
    \/ s = key.part
    \/ s = "weight" /\ key.part \in {"lora_down", "lora_up"}

(***************************************************************************)
(* LoRAModule / LoRAInfModule objects.                                     *)
(***************************************************************************)
\* self.scale = alpha / self.lora_dim, alpha replaced by lora_dim when it is
\* None or 0.  The inputs of the model keep alpha a multiple of lora_dim, so
\* the integer quotient is the real one.
ScaleOf(lora_dim, alpha) == (IF alpha = 0 THEN lora_dim ELSE alpha) \div lora_dim

\* kaiming_uniform_ draws lora_down at random: one fixed draw stands for it
KaimingDown(lora_dim, in_dim) == [i \in 1..lora_dim |-> [j \in 1..in_dim |-> i + j - 1]]

\* LoRAInfModule.__init__: split_dims is swallowed by **kwargs and not handed
\* to LoRAModule.__init__, so an inference module is never in split mode
NewLoRAInfModule(multiplier, lora_dim, alpha, in_dim, out_dim) ==
    [ multiplier  |-> multiplier,
      lora_dim    |-> lora_dim,
      split_dims  |-> <<>>,
      alpha       |-> IF alpha = 0 THEN lora_dim ELSE alpha,
      scale       |-> ScaleOf(lora_dim, alpha),
      lora_down   |-> KaimingDown(lora_dim, in_dim),
      lora_up     |-> Zeros(out_dim, lora_dim),
      org_module  |-> TRUE,       \* the attribute self.org_module exists
      org_forward |-> "unset",
      enabled     |-> TRUE ]

\* a target Linear layer; forward is "base" (its own) or "lora" (patched)
NewLinear(weight) ==
    [ weight           |-> weight,
      forward          |-> "base",
      has_org_weight   |-> FALSE,          \* hasattr(_lora_org_weight)
      lora_org_weight  |-> weight,         \* meaningful when has_org_weight
      lora_restored    |-> "unset" ]       \* "unset", "True", "False"

(***************************************************************************)
(* The network of the life-cycle specification: one CLIP adapter and one   *)
(* FLUX adapter on 2x2 Linear layers, rank 1.                              *)
(***************************************************************************)
TE_Q == <<"lora_te1", "q">>
U_A  == <<"lora_unet", "a">>
U_X  == <<"lora_unet", "x">>       \* a name of the weight files only
LifeNames == {TE_Q, U_A}

LifeAlpha(n) == IF n = U_A THEN 2 ELSE 1

LifeBaseWeight(n) ==
    IF n = TE_Q THEN <<<<1, 0>>, <<0, 1>>>> ELSE <<<<2, 1>>, <<0, 3>>>>

\* the tensors a weight file holds for adapter n
FileDown(n) == IF n = TE_Q THEN <<<<1, 0>>>> ELSE <<<<1, 2>>>>
FileUp(n)   == IF n = TE_Q THEN <<<<1>>, <<1>>>> ELSE <<<<1>>, <<3>>>>

\* a key "<lora_name>.<part>.weight" (branch -1), "<lora_name>.<part>.<i>.weight"
\* (branch i >= 0, split form) or "<lora_name>.alpha" (part "alpha", branch -1)
Key(n, part, branch) == [name |-> n, part |-> part, branch |-> branch]

DenseParts == {"lora_down", "lora_up", "alpha"}

FileValue(key) ==
    IF key.part = "lora_down" THEN FileDown(key.name)
    ELSE IF key.part = "lora_up" THEN FileUp(key.name)
    ELSE <<<<LifeAlpha(key.name)>>>>

\* a weight dictionary with all the keys of the adapters in S
SdFor(S) == [key \in {Key(n, c, -1) : n \in S, c \in DenseParts} |-> FileValue(key)]

\* the weight files the calls are tried with: every adapter, the FLUX family
\* only, the text encoder only, and a file whose FLUX keys are not U_A's
WeightFiles == {SdFor(LifeNames), SdFor({U_A}), SdFor({TE_Q}), SdFor({TE_Q, U_X})}

\* the file load_weights is tried with
LoadFiles == {SdFor(LifeNames)}

Multipliers == 1..MaxMultiplier

Inputs == {<<1, 0>>, <<0, 1>>, <<1, 1>>}

Loras(n) == n.text_encoder_loras \o n.unet_loras

NoArg == <<>>
Ret(op, arg, err) == [op |-> op, arg |-> arg, err |-> err]

\* LoRANetwork(..., multiplier, module_class=LoRAInfModule) on the two layers
InitLife ==
    /\ \E multiplier \in Multipliers :
          /\ net = [ text_encoder_loras |-> <<TE_Q>>,
                     unet_loras         |-> <<U_A>>,
                     multiplier         |-> multiplier,
                     split_qkv          |-> FALSE,
                     modules            |-> {} ]
          /\ lora = [n \in LifeNames |-> NewLoRAInfModule(multiplier, 1, LifeAlpha(n), 2, 2)]
    /\ org = [n \in LifeNames |-> NewLinear(LifeBaseWeight(n))]
    /\ ret = Ret("__init__", NoArg, "none")
    /\ phase = "none"
    /\ folds = 0

IdleFun == inp = <<>> /\ out = <<>> /\ pc = "idle"

Init == InitLife /\ IdleFun

(***************************************************************************)
(* LoRAInfModule.get_weight / default_forward / forward / merge_to.        *)
(***************************************************************************)
\* an optional argument is <<>> (None) or <<v>>
\* (mutant: the delta without self.scale)
GetWeight_NoScale(l, multiplier) == MatScale(l.multiplier, MatMul(l.lora_up, l.lora_down))

\* get_weight resolves `multiplier` and then uses self.multiplier all the same
GetWeight(l, multiplier) ==
    LET m == IF Len(multiplier) = 0 THEN l.multiplier ELSE multiplier[1]
    IN  MatScale(l.multiplier * l.scale, MatMul(l.lora_up, l.lora_down))

\* torch.cat over the branch outputs of a split module
RECURSIVE CatBranches(_, _, _)
CatBranches(l, x, i) ==
    IF i > Len(l.split_dims) THEN <<>>
    ELSE MatVec(l.lora_up[i], MatVec(l.lora_down[i], x)) \o CatBranches(l, x, i + 1)

\* default_forward, given org_forward(x)
DefaultForward(l, org_forwarded, x) ==
    IF Len(l.split_dims) = 0
    THEN VecAdd(org_forwarded,
                VecScale(l.multiplier * l.scale, MatVec(l.lora_up, MatVec(l.lora_down, x))))
    ELSE VecAdd(org_forwarded, VecScale(l.multiplier * l.scale, CatBranches(l, x, 1)))

\* LoRAInfModule.forward
InfForward(l, org_forwarded, x) ==
    IF ~l.enabled THEN org_forwarded ELSE DefaultForward(l, org_forwarded, x)

\* calling the target layer: its own forward, or the adapter's after apply_to
\* (org_forward is then the layer's original forward)
LayerForward(l, o, x) ==
    IF o.forward = "base" THEN MatVec(o.weight, x)
    ELSE InfForward(l, MatVec(o.weight, x), x)

\* weight + delta as torch broadcasts it for 2-D tensors of equal width
BroadcastAdd(W, D) ==
    IF Len(D) = Len(W) THEN [err |-> "none", w |-> MatAdd(W, D)]
    ELSE IF Len(D) = 1
         THEN [err |-> "none", w |-> [i \in 1..Len(W) |-> [j \in 1..Cols(W) |-> W[i][j] + D[1][j]]]]
    ELSE IF Len(W) = 1
         THEN [err |-> "none", w |-> [i \in 1..Len(D) |-> [j \in 1..Cols(W) |-> W[1][j] + D[i][j]]]]
    ELSE [err |-> "RuntimeError", w |-> W]

SdKey(part, branch) == [rest |-> <<>>, part |-> part, branch |-> branch]

\* the split branch of merge_to: branches i..n added to `weight` one by one
RECURSIVE MergeSplit(_, _, _, _)
MergeSplit(l, sd, weight, i) ==
    IF i > Len(l.split_dims) THEN [err |-> "none", w |-> weight]
    ELSE IF SdKey("lora_down", i - 1) \notin DOMAIN sd \/ SdKey("lora_up", i - 1) \notin DOMAIN sd
         THEN [err |-> "KeyError", w |-> weight]
    ELSE LET down_weight == sd[SdKey("lora_down", i - 1)]
             up_weight == sd[SdKey("lora_up", i - 1)]
             \* padded_up_weight is zeros((total_dims, up_weight.size(0))): its rows
             \* of this branch take up_weight only if that broadcasts
             pad_ok == Cols(up_weight) = Rows(up_weight) \/ Cols(up_weight) = 1
             r == BroadcastAdd(weight,
                               MatScale(l.multiplier * l.scale, MatMul(up_weight, down_weight)))
         IN  IF ~pad_ok THEN [err |-> "RuntimeError", w |-> weight]
             ELSE IF r.err # "none" THEN [err |-> r.err, w |-> weight]
             ELSE MergeSplit(l, sd, r.w, i + 1)

\* (a variant of the dense case that reaches the layer through org_module_ref)
ModuleMergeTo_ViaRef(l, o, sd) ==
    IF SdKey("lora_down", -1) \notin DOMAIN sd \/ SdKey("lora_up", -1) \notin DOMAIN sd
    THEN [err |-> "KeyError", o |-> o]
    ELSE [err |-> "none",
          o |-> [o EXCEPT !.weight =
                    MatAdd(o.weight,
                           MatScale(l.multiplier * l.scale,
                                    MatMul(sd[SdKey("lora_up", -1)], sd[SdKey("lora_down", -1)])))]]

\* LoRAInfModule.merge_to(sd, dtype, device) on module l with target layer o:
\* the layer after the call and the exception raised, if any
ModuleMergeTo(l, o, sd) ==
    IF ~l.org_module THEN [err |-> "AttributeError", o |-> o]
    ELSE IF Len(l.split_dims) = 0
    THEN IF SdKey("lora_down", -1) \notin DOMAIN sd \/ SdKey("lora_up", -1) \notin DOMAIN sd
         THEN [err |-> "KeyError", o |-> o]
         ELSE LET down_weight == sd[SdKey("lora_down", -1)]
                  up_weight == sd[SdKey("lora_up", -1)]
                  r == BroadcastAdd(o.weight,
                           MatScale(l.multiplier * l.scale, MatMul(up_weight, down_weight)))
              IN  IF r.err # "none" THEN [err |-> r.err, o |-> o]
                  ELSE IF Len(r.w) # Len(o.weight) THEN [err |-> "RuntimeError", o |-> o]
                  ELSE [err |-> "none", o |-> [o EXCEPT !.weight = r.w]]
    ELSE LET r == MergeSplit(l, sd, o.weight, 1)
         IN  IF r.err # "none" THEN [err |-> r.err, o |-> o]
             ELSE IF Len(r.w) # Len(o.weight) THEN [err |-> "RuntimeError", o |-> o]
             ELSE [err |-> "none", o |-> [o EXCEPT !.weight = r.w]]

(***************************************************************************)
(* LoRANetwork: the calls of the life cycle.                               *)
(***************************************************************************)
Targets(n) == Range(Loras(n))

\* ---- set_enabled
SetEnabled(is_enabled) ==
    /\ lora' = [n \in DOMAIN lora |->
                  IF n \in Targets(net) THEN [lora[n] EXCEPT !.enabled = is_enabled] ELSE lora[n]]
    /\ ret' = Ret("set_enabled", NoArg, "none")
    /\ UNCHANGED <<net, org, phase, folds>>
    /\ UNCHANGED funVars

\* ---- apply_to
\* (a variant whose module apply_to runs again on a module it ran on before)
RECURSIVE ApplyLoop_Reapply(_, _)
ApplyLoop_Reapply(names, st) ==
    IF names = <<>> THEN st
    ELSE LET n == Head(names)
         IN  ApplyLoop_Reapply(Tail(names),
                [ lora    |-> [st.lora EXCEPT ![n].org_forward = st.org[n].forward,
                                              ![n].org_module = FALSE],
                  org     |-> [st.org EXCEPT ![n].forward = "lora"],
                  modules |-> st.modules \cup {n},
                  err     |-> "none" ])

\* (a variant whose module apply_to does not delete self.org_module)
RECURSIVE ApplyLoop_KeepOrgModule(_, _)
ApplyLoop_KeepOrgModule(names, st) ==
    IF names = <<>> THEN st
    ELSE LET n == Head(names)
         IN  IF ~st.lora[n].org_module
             THEN [st EXCEPT !.err = "AttributeError"]
             ELSE ApplyLoop_KeepOrgModule(Tail(names),
                    [ lora    |-> [st.lora EXCEPT ![n].org_forward = st.org[n].forward],
                      org     |-> [st.org EXCEPT ![n].forward = "lora"],
                      modules |-> st.modules \cup {n},
                      err     |-> "none" ])

\* LoRAModule.apply_to on each module in turn; `st` is [lora, org, modules, err]
RECURSIVE ApplyLoop(_, _)
ApplyLoop(names, st) ==
    IF names = <<>> THEN st
    ELSE LET n == Head(names)
         IN  IF ~st.lora[n].org_module
             THEN [st EXCEPT !.err = "AttributeError"]     \* self.org_module was deleted
             ELSE ApplyLoop(Tail(names),
                    [ lora    |-> [st.lora EXCEPT ![n].org_forward = st.org[n].forward,
                                                  ![n].org_module = FALSE],
                      org     |-> [st.org EXCEPT ![n].forward = "lora"],
                      modules |-> st.modules \cup {n},
                      err     |-> "none" ])

NetApplyTo(nw, apply_text_encoder, apply_unet) ==
    [nw EXCEPT !.text_encoder_loras = IF apply_text_encoder THEN @ ELSE <<>>,
               !.unet_loras = IF apply_unet THEN @ ELSE <<>>]

ApplyTo(apply_text_encoder, apply_unet) ==
    LET nw == NetApplyTo(net, apply_text_encoder, apply_unet)
        st == ApplyLoop(Loras(nw), [lora |-> lora, org |-> org, modules |-> net.modules,
                                    err |-> "none"])
    IN  /\ net' = [nw EXCEPT !.modules = st.modules]
        /\ lora' = st.lora
        /\ org' = st.org
        /\ ret' = Ret("apply_to", [te |-> apply_text_encoder, unet |-> apply_unet], st.err)
        /\ UNCHANGED <<phase, folds>>
        /\ UNCHANGED funVars

\* ---- load_weights (load_state_dict of torch, strict=False, no split_qkv):
\* every registered module takes the tensors the file has for it
LoadInto(l, n, sd) ==
    [l EXCEPT !.lora_down = IF Key(n, "lora_down", -1) \in DOMAIN sd
                            THEN sd[Key(n, "lora_down", -1)] ELSE @,
              !.lora_up = IF Key(n, "lora_up", -1) \in DOMAIN sd
                          THEN sd[Key(n, "lora_up", -1)] ELSE @,
              !.alpha = IF Key(n, "alpha", -1) \in DOMAIN sd
                        THEN sd[Key(n, "alpha", -1)][1][1] ELSE @]

LoadWeights(sd) ==
    /\ lora' = [n \in DOMAIN lora |->
                  IF n \in net.modules THEN LoadInto(lora[n], n, sd) ELSE lora[n]]
    /\ ret' = Ret("load_weights", NoArg, "none")
    /\ UNCHANGED <<net, org, phase, folds>>
    /\ UNCHANGED funVars

\* ---- merge_to
SdApplyTextEncoder(sd) ==
    \E key \in DOMAIN sd :
        \/ KeyStartsWith(key, LORA_PREFIX_TEXT_ENCODER_CLIP)
        \/ KeyStartsWith(key, LORA_PREFIX_TEXT_ENCODER_T5)

SdApplyUnet(sd) ==
    \E key \in DOMAIN sd :
        /\ ~(KeyStartsWith(key, LORA_PREFIX_TEXT_ENCODER_CLIP)
             \/ KeyStartsWith(key, LORA_PREFIX_TEXT_ENCODER_T5))
        /\ KeyStartsWith(key, LORA_PREFIX_FLUX)

\* a sd_for_lora whose keys keep the adapter's name
SdForLora_Uncut(sd, n) ==
    LET mine == {key \in DOMAIN sd : IsPrefix(n, key.name)}
    IN  [k \in {[rest |-> key.name, part |-> key.part, branch |-> key.branch] : key \in mine} |->
           sd[Key(k.rest, k.part, k.branch)]]

\* sd_for_lora: the keys that start with lora_name, cut after it
SdForLora(sd, n) ==
    LET mine == {key \in DOMAIN sd : IsPrefix(n, key.name)}
        cut(key) == [rest |-> SubSeq(key.name, Len(n) + 1, Len(key.name)),
                     part |-> key.part, branch |-> key.branch]
    IN  [k \in {cut(key) : key \in mine} |-> sd[Key(n \o k.rest, k.part, k.branch)]]

\* the loop of merge_to; `st` is [org, err]
RECURSIVE MergeLoop(_, _, _, _)
MergeLoop(names, L, sd, st) ==
    IF names = <<>> THEN st
    ELSE LET n == Head(names)
             r == ModuleMergeTo(L[n], st.org[n], SdForLora(sd, n))
         IN  IF r.err # "none" THEN [st EXCEPT !.err = r.err]
             ELSE MergeLoop(Tail(names), L, sd, [st EXCEPT !.org[n] = r.o])

\* (mutant: merge_to keeps both collections)
NetMergeTo_KeepAll(nw, sd) == nw

NetMergeTo(nw, sd) == NetApplyTo(nw, SdApplyTextEncoder(sd), SdApplyUnet(sd))

MergeTo(sd) ==
    LET nw == NetMergeTo(net, sd)
        st == MergeLoop(Loras(nw), lora, sd, [org |-> org, err |-> "none"])
    IN  /\ folds < MaxFolds
        /\ net' = nw
        /\ org' = st.org
        /\ ret' = Ret("merge_to", sd, st.err)
        /\ phase' = IF phase = "backed" THEN "merged" ELSE phase
        /\ folds' = folds + 1
        /\ UNCHANGED lora
        /\ UNCHANGED funVars

\* ---- backup_weights
\* (mutant: no hasattr guard, every call takes a new snapshot)
BackupOne_Always(o) ==
    [o EXCEPT !.has_org_weight = TRUE, !.lora_org_weight = o.weight, !.lora_restored = "True"]

BackupOne(o) ==
    IF ~o.has_org_weight
    THEN [o EXCEPT !.has_org_weight = TRUE, !.lora_org_weight = o.weight,
                   !.lora_restored = "True"]
    ELSE o

BackupWeights ==
    /\ org' = [n \in DOMAIN org |-> IF n \in Targets(net) THEN BackupOne(org[n]) ELSE org[n]]
    /\ ret' = Ret("backup_weights", NoArg, "none")
    /\ phase' = IF phase = "none" THEN "backed" ELSE phase
    /\ UNCHANGED <<net, lora, folds>>
    /\ UNCHANGED funVars

\* ---- restore_weights
\* (mutant: the flag is set, the snapshot is not loaded back)
RestoreOne_FlagOnly(o) == [o EXCEPT !.lora_restored = "True"]

RestoreOne(o) == [o EXCEPT !.weight = o.lora_org_weight, !.lora_restored = "True"]

\* `st` is [org, err]
RECURSIVE RestoreLoop(_, _)
RestoreLoop(names, st) ==
    IF names = <<>> THEN st
    ELSE LET n == Head(names)
             o == st.org[n]
         IN  IF o.lora_restored = "unset" THEN [st EXCEPT !.err = "AttributeError"]
             ELSE IF o.lora_restored = "True" THEN RestoreLoop(Tail(names), st)
             ELSE IF ~o.has_org_weight THEN [st EXCEPT !.err = "AttributeError"]
             ELSE RestoreLoop(Tail(names), [st EXCEPT !.org[n] = RestoreOne(o)])

RestoreWeights ==
    LET st == RestoreLoop(Loras(net), [org |-> org, err |-> "none"])
    IN  /\ org' = st.org
        /\ ret' = Ret("restore_weights", NoArg, st.err)
        /\ phase' = IF phase \in {"backed", "merged", "folded"} THEN "restored" ELSE phase
        /\ UNCHANGED <<net, lora, folds>>
        /\ UNCHANGED funVars

\* ---- pre_calculation
PreCalcOne(o, l) ==
    [o EXCEPT !.weight = MatAdd(o.weight, GetWeight(l, <<>>)), !.lora_restored = "False"]

PreCalculation ==
    /\ folds < MaxFolds
    /\ org' = [n \in DOMAIN org |->
                 IF n \in Targets(net) THEN PreCalcOne(org[n], lora[n]) ELSE org[n]]
    /\ lora' = [n \in DOMAIN lora |->
                  IF n \in Targets(net) THEN [lora[n] EXCEPT !.enabled = FALSE] ELSE lora[n]]
    /\ ret' = Ret("pre_calculation", NoArg, "none")
    /\ phase' = IF phase \in {"backed", "merged"} THEN "folded" ELSE phase
    /\ folds' = folds + 1
    /\ UNCHANGED net
    /\ UNCHANGED funVars

Next ==
    \/ \E b \in BOOLEAN : SetEnabled(b)
    \/ \E te \in BOOLEAN, un \in BOOLEAN : ApplyTo(te, un)
    \/ \E sd \in LoadFiles : LoadWeights(sd)
    \/ \E sd \in WeightFiles : MergeTo(sd)
    \/ BackupWeights
    \/ RestoreWeights
    \/ PreCalculation

Spec == Init /\ [][Next]_vars

(***************************************************************************)
(* C1.  Original statement: after backup_weights(), any number of          *)
(* weight-changing calls (merge_to and/or pre_calculation) and then one    *)
(* restore_weights(), every target layer's weight is the weight it had at  *)
(* the backup.  phase leaves "backed"/"merged"/"folded" for "restored" at  *)
(* the first restore_weights() after the backup that took the snapshots.   *)
(***************************************************************************)
WeightsAreBackup(n, o) == \A a \in Targets(n) : o[a].weight = o[a].lora_org_weight

C1_RestoreAfterAnyFold ==
    [][(phase \in {"backed", "merged", "folded"} /\ phase' = "restored")
          => WeightsAreBackup(net', org')]_vars

(***************************************************************************)
(* C1, amended.  After the backup_weights() that takes the snapshots, then *)
(* either no weight-changing call or weight-changing calls of which at     *)
(* least one is pre_calculation, then one restore_weights(): every layer   *)
(* still targeted by the network has exactly the weight of the snapshot.   *)
(***************************************************************************)
C1_RestoreAfterPreCalc ==
    [][(phase \in {"backed", "folded"} /\ phase' = "restored")
          => (ret'.err = "none" /\ WeightsAreBackup(net', org'))]_vars

\* a restore just rolled a folded, non-zero delta back to the snapshot
C1_Witness ==
    /\ ret.op = "restore_weights"
    /\ phase = "restored"
    /\ folds = MaxFolds
    /\ \E a \in Targets(net) :
          /\ ~lora[a].enabled
          /\ MatMul(lora[a].lora_up, lora[a].lora_down) # Zeros(2, 2)
          /\ org[a].lora_restored = "True"
          /\ org[a].weight = org[a].lora_org_weight
          /\ org[a].weight = LifeBaseWeight(a)

(***************************************************************************)
(* C2.  Repeated calls are no-ops and do not raise: backup_weights() when  *)
(* every target layer already has a snapshot changes no layer (snapshot,   *)
(* weight, flag), also after pre_calculation changed the weights; and      *)
(* restore_weights() when every target layer is already restored changes   *)
(* no layer.                                                               *)
(***************************************************************************)
C2_RepeatedCallsAreNoOps ==
    [][/\ (ret'.op = "backup_weights" /\ \A a \in Targets(net) : org[a].has_org_weight)
            => (org' = org /\ ret'.err = "none")
       /\ (ret'.op = "restore_weights" /\ \A a \in Targets(net) : org[a].lora_restored = "True")
            => (org' = org /\ ret'.err = "none")]_vars

\* a second backup_weights() returned while a folded weight differs from the snapshot
C2_Witness ==
    /\ ret.op = "backup_weights"
    /\ ret.err = "none"
    /\ phase = "folded"
    /\ \E a \in Targets(net) :
          /\ org[a].has_org_weight
          /\ org[a].lora_restored = "False"
          /\ org[a].weight # org[a].lora_org_weight
          /\ org[a].lora_org_weight = LifeBaseWeight(a)

(***************************************************************************)
(* C3.  After pre_calculation() every adapter of both collections is       *)
(* disabled and every target layer's weight is its weight before the call  *)
(* plus multiplier * scale * (up @ down); a patched layer whose adapter    *)
(* was enabled before the call gives the same forward output before and    *)
(* after the call.                                                         *)
(***************************************************************************)
FoldedDelta(l) == MatScale(l.multiplier * l.scale, MatMul(l.lora_up, l.lora_down))

C3_PreCalculationFolds ==
    [][(ret'.op = "pre_calculation")
          => \A a \in Targets(net) :
                /\ ~lora'[a].enabled
                /\ org'[a].weight = MatAdd(org[a].weight, FoldedDelta(lora[a]))
                /\ (org[a].forward = "lora" /\ lora[a].enabled)
                      => \A x \in Inputs :
                            LayerForward(lora'[a], org'[a], x) = LayerForward(lora[a], org[a], x)]_vars

\* pre_calculation just folded a non-zero delta of a patched layer
C3_Witness ==
    /\ ret.op = "pre_calculation"
    /\ folds = 1
    /\ \E a \in Targets(net) :
          /\ org[a].forward = "lora"
          /\ ~lora[a].enabled
          /\ lora[a].scale = 2
          /\ FoldedDelta(lora[a]) # Zeros(2, 2)
          /\ org[a].weight = MatAdd(LifeBaseWeight(a), FoldedDelta(lora[a]))

(***************************************************************************)
(* C10.  apply_to with a family not requested, and merge_to with a weight  *)
(* dictionary without a key of a family's prefix, empty that family's      *)
(* collection and keep the other family's adapters; an empty collection    *)
(* stays empty under every later call.                                     *)
(***************************************************************************)
HasTextEncoderKey(sd) ==
    \E key \in DOMAIN sd : key.name[1] \in {"lora_te1", "lora_te3"}

HasUnetKey(sd) == \E key \in DOMAIN sd : key.name[1] = "lora_unet"

Kept(requested, before, after) == after = (IF requested THEN before ELSE <<>>)

C10_UnrequestedFamiliesDropped ==
    [][/\ (ret'.op = "apply_to")
            => /\ Kept(ret'.arg.te, net.text_encoder_loras, net'.text_encoder_loras)
               /\ Kept(ret'.arg.unet, net.unet_loras, net'.unet_loras)
       /\ (ret'.op = "merge_to")
            => /\ Kept(HasTextEncoderKey(ret'.arg), net.text_encoder_loras, net'.text_encoder_loras)
               /\ Kept(HasUnetKey(ret'.arg), net.unet_loras, net'.unet_loras)
       /\ (net.text_encoder_loras = <<>>) => (net'.text_encoder_loras = <<>>)
       /\ (net.unet_loras = <<>>) => (net'.unet_loras = <<>>)]_vars

\* the first call on the network, a merge_to of a file without text-encoder
\* keys, dropped the text-encoder adapter and kept the FLUX adapter
C10_Witness ==
    /\ ret.op = "merge_to"
    /\ ~HasTextEncoderKey(ret.arg)
    /\ net.modules = {}
    /\ net.text_encoder_loras = <<>>
    /\ net.unet_loras = <<U_A>>
    /\ org[U_A].weight # LifeBaseWeight(U_A)
    /\ org[TE_Q].weight = LifeBaseWeight(TE_Q)

(***************************************************************************)
(* LoRAModule.__init__ with split_dims, and the tensors of a module.       *)
(***************************************************************************)
RECURSIVE SumSeq(_)
SumSeq(q) == IF q = <<>> THEN 0 ELSE Head(q) + SumSeq(Tail(q))

\* split_dims of the double-stream qkv layers and the single-stream linear1 layers
SplitDimsDouble == <<QkvDim, QkvDim, QkvDim>>
SplitDimsSingle == <<QkvDim, QkvDim, QkvDim, MlpRatio * QkvDim>>

\* a tensor with recognisable entries: entry (i, j) is seed * (10 i + j)
Tensor(seed, rows, cols) == [i \in 1..rows |-> [j \in 1..cols |-> seed * (10 * i + j)]]

\* the exception LoRAModule.__init__ raises for these arguments, if any
LoRAModuleInitError(cls, out_dim, split_dims) ==
    IF Len(split_dims) = 0 THEN "none"
    ELSE IF SumSeq(split_dims) # out_dim THEN "AssertionError"
    ELSE IF cls # "Linear" THEN "AssertionError"
    ELSE "none"

\* LoRAModule.__init__ for a Linear target: split_dims <<>> is None.  sd and su
\* seed the down and up tensors (training moves them off their initial values).
NewLoRAModule(multiplier, lora_dim, alpha, in_dim, out_dim, split_dims, sd, su) ==
    [ multiplier  |-> multiplier,
      lora_dim    |-> lora_dim,
      split_dims  |-> split_dims,
      alpha       |-> IF alpha = 0 THEN lora_dim ELSE alpha,
      scale       |-> ScaleOf(lora_dim, alpha),
      lora_down   |-> IF Len(split_dims) = 0 THEN Tensor(sd, lora_dim, in_dim)
                      ELSE [i \in 1..Len(split_dims) |-> Tensor(sd + i, lora_dim, in_dim)],
      lora_up     |-> IF Len(split_dims) = 0 THEN Tensor(su, out_dim, lora_dim)
                      ELSE [i \in 1..Len(split_dims) |-> Tensor(su * i, split_dims[i], lora_dim)],
      org_module  |-> TRUE,
      org_forward |-> "unset",
      enabled     |-> TRUE ]

\* self.org_module = org_module makes the base layer a child module of the
\* adapter, under the name org_module, until apply_to deletes the attribute:
\* the keys the base layer's weight then has among the adapter's tensors
OrgModuleKeys(l) == IF l.org_module THEN {SdKey("org_module", -1)} ELSE {}

\* the adapter's own part of torch.nn.Module.state_dict(), keys without the module's name:
\* lora_down.weight / lora_up.weight, or lora_down.<i>.weight / lora_up.<i>.weight
ModuleStateDict(l) ==
    IF Len(l.split_dims) = 0
    THEN [k \in {SdKey(p, -1) : p \in DenseParts} |->
            IF k.part = "lora_down" THEN l.lora_down
            ELSE IF k.part = "lora_up" THEN l.lora_up ELSE <<<<l.alpha>>>>]
    ELSE [k \in {SdKey(p, i - 1) : p \in {"lora_down", "lora_up"}, i \in 1..Len(l.split_dims)}
               \cup {SdKey("alpha", -1)} |->
            IF k.part = "lora_down" THEN l.lora_down[k.branch + 1]
            ELSE IF k.part = "lora_up" THEN l.lora_up[k.branch + 1] ELSE <<<<l.alpha>>>>]

(***************************************************************************)
(* Specification of LoRAInfModule.merge_to as a function: a module, its    *)
(* target layer and the module's own tensors as the dictionary to merge.   *)
(***************************************************************************)
IdleLife ==
    /\ net = <<>> /\ lora = <<>> /\ org = <<>> /\ ret = <<>> /\ phase = "none" /\ folds = 0

SplitChoices == {<<>>, SplitDimsDouble, SplitDimsSingle}

MergeInputs ==
    { [ l |-> NewLoRAModule(m, r, a * r, i, IF Len(q) = 0 THEN QkvDim ELSE SumSeq(q), q, sd, su),
        o |-> NewLinear(Tensor(1, IF Len(q) = 0 THEN QkvDim ELSE SumSeq(q), i)) ] :
        m \in Multipliers, r \in 1..MaxRank, a \in 1..2, i \in 1..MaxInDim,
        q \in SplitChoices, sd \in 1..2, su \in 0..1 }

InitMerge ==
    /\ IdleLife
    /\ inp \in MergeInputs
    /\ out = <<>>
    /\ pc = "merge_to"

MergeCall ==
    /\ pc = "merge_to"
    /\ out' = ModuleMergeTo(inp.l, inp.o, ModuleStateDict(inp.l))
    /\ pc' = "merged"
    /\ UNCHANGED <<inp, lifeVars>>

SpecMerge == InitMerge /\ [][MergeCall]_vars

\* the unit vectors and the all-ones vector of dimension n
UnitInputs(n) == {[j \in 1..n |-> IF j = k THEN 1 ELSE 0] : k \in 1..n} \cup {[j \in 1..n |-> 1]}

Mod(path, cls, in_dim, out_dim) ==
    [path |-> path, cls |-> cls, in_dim |-> in_dim, out_dim |-> out_dim]

\* str.replace(".", "_") on a dotted path: the segments' tokens in one sequence
RECURSIVE Flat(_)
Flat(path) == IF path = <<>> THEN <<>> ELSE Head(path) \o Flat(Tail(path))

FLUX_TARGET_REPLACE_MODULE_DOUBLE == {"DoubleStreamBlock"}
FLUX_TARGET_REPLACE_MODULE_SINGLE == {"SingleStreamBlock"}
TEXT_ENCODER_TARGET_REPLACE_MODULE ==
    {"CLIPAttention", "CLIPSdpaAttention", "CLIPMLP", "T5Attention", "T5DenseGatedActDense"}

LeafClasses == {"Linear", "Conv2d1x1", "Conv2d3x3"}

\* lora_name = (prefix + "." + name + "." + child_name).replace(".", "_")
LoraName(prefix, name, child_name) == <<prefix>> \o Flat(name) \o Flat(child_name)

\* the inner loop of create_modules: the Linear / Conv2d modules that
\* module.named_modules() yields, with their names relative to the module
Under(tree, module) ==
    LET children == SelectSeq(tree, LAMBDA child : /\ IsPrefix(module.path, child.path)
                                                  /\ child.cls \in LeafClasses)
    IN  [j \in 1..Len(children) |->
           [ name |-> module.path,
             child_name |-> SubSeq(children[j].path, Len(module.path) + 1,
                                   Len(children[j].path)),
             child |-> children[j] ]]

\* the two loops of create_modules: every Linear / Conv2d found under a module
\* of a target class, in the order of the loops, from the i-th module on
RECURSIVE Leaves(_, _, _)
Leaves(tree, target_replace_modules, i) ==
    IF i > Len(tree) THEN <<>>
    ELSE (IF tree[i].cls \in target_replace_modules THEN Under(tree, tree[i]) ELSE <<>>)
         \o Leaves(tree, target_replace_modules, i + 1)

\* dim and alpha of one leaf: [err, has, dim, alpha]; has = FALSE is dim None
ResolveDim(cfg, lora_name, child) ==
    LET none == [err |-> "none", has |-> FALSE, dim |-> 0, alpha |-> 0]
    IN  IF cfg.has_modules_dim
        THEN IF lora_name \in DOMAIN cfg.modules_dim
             THEN IF lora_name \notin DOMAIN cfg.modules_alpha
                  THEN [none EXCEPT !.err = "KeyError"]
                  ELSE [ err |-> "none", has |-> TRUE, dim |-> cfg.modules_dim[lora_name],
                         alpha |-> cfg.modules_alpha[lora_name] ]
             ELSE none
        ELSE IF child.cls \in {"Linear", "Conv2d1x1"}
             THEN [err |-> "none", has |-> TRUE, dim |-> cfg.lora_dim, alpha |-> cfg.alpha]
        ELSE IF Len(cfg.conv_lora_dim) > 0
             THEN [ err |-> "none", has |-> TRUE, dim |-> cfg.conv_lora_dim[1],
                    alpha |-> cfg.conv_alpha ]
        ELSE none

\* the qkv split of create_modules; <<>> is None
SplitDimsFor(is_flux, split_qkv, lora_name) ==
    IF is_flux /\ split_qkv
    THEN IF "double" \in Range(lora_name) /\ "qkv" \in Range(lora_name) THEN SplitDimsDouble
         ELSE IF "single" \in Range(lora_name) /\ "linear1" \in Range(lora_name)
              THEN SplitDimsSingle
         ELSE <<>>
    ELSE <<>>

\* module_class(lora_name, child_module, multiplier, dim, alpha, ..., split_dims):
\* LoRAInfModule.__init__ does not pass split_dims on
NewAdapter(module_class, lora_name, child, dim, alpha, split_dims) ==
    LET eff == IF module_class = "LoRAInfModule" THEN <<>> ELSE split_dims
    IN  [ err |-> LoRAModuleInitError(IF child.cls = "Linear" THEN "Linear" ELSE "Conv2d",
                                      child.out_dim, eff),
          lora |-> [ lora_name |-> lora_name, lora_dim |-> dim,
                     alpha |-> IF alpha = 0 THEN dim ELSE alpha,
                     split_dims |-> eff, in_dim |-> child.in_dim, out_dim |-> child.out_dim ] ]

\* the body of the inner loop for the leaves in turn; acc is [loras, skipped, err]
RECURSIVE CreateFrom(_, _, _, _, _)
CreateFrom(leaves, is_flux, prefix, cfg, acc) ==
    IF leaves = <<>> THEN acc
    ELSE LET leaf == Head(leaves)
             lora_name == LoraName(prefix, leaf.name, leaf.child_name)
             d == ResolveDim(cfg, lora_name, leaf.child)
             is_lin_or_1x1 == leaf.child.cls \in {"Linear", "Conv2d1x1"}
         IN  IF d.err # "none" THEN [acc EXCEPT !.err = d.err]
             ELSE IF ~d.has \/ d.dim = 0
             THEN CreateFrom(Tail(leaves), is_flux, prefix, cfg,
                     IF is_lin_or_1x1 \/ Len(cfg.conv_lora_dim) > 0
                     THEN [acc EXCEPT !.skipped = Append(@, lora_name)] ELSE acc)
             ELSE LET a == NewAdapter(cfg.module_class, lora_name, leaf.child, d.dim, d.alpha,
                                      SplitDimsFor(is_flux, cfg.split_qkv, lora_name))
                  IN  IF a.err # "none" THEN [acc EXCEPT !.err = a.err]
                      ELSE CreateFrom(Tail(leaves), is_flux, prefix, cfg,
                                      [acc EXCEPT !.loras = Append(@, a.lora)])

CreateModules(is_flux, text_encoder_idx, root_module, target_replace_modules, cfg) ==
    LET prefix == IF is_flux THEN LORA_PREFIX_FLUX
                  ELSE IF text_encoder_idx = 0 THEN LORA_PREFIX_TEXT_ENCODER_CLIP
                  ELSE LORA_PREFIX_TEXT_ENCODER_T5
    IN  CreateFrom(Leaves(root_module, target_replace_modules, 1), is_flux, prefix, cfg,
                   [loras |-> <<>>, skipped |-> <<>>, err |-> "none"])

\* the loop over text_encoders: index 0 is CLIP, index 1 T5XXL
RECURSIVE TextEncoderLoras(_, _, _, _)
TextEncoderLoras(text_encoders, index, cfg, acc) ==
    IF index >= Len(text_encoders) THEN acc
    ELSE IF ~cfg.train_t5xxl /\ index > 0 THEN acc
    ELSE LET r == CreateModules(FALSE, index, text_encoders[index + 1],
                                TEXT_ENCODER_TARGET_REPLACE_MODULE, cfg)
         IN  IF r.err # "none" THEN [acc EXCEPT !.err = r.err]
             ELSE TextEncoderLoras(text_encoders, index + 1, cfg,
                     [acc EXCEPT !.loras = @ \o r.loras, !.skipped = @ \o r.skipped])

\* a selection that ignores train_blocks
UnetTargets_All(train_blocks) ==
    FLUX_TARGET_REPLACE_MODULE_DOUBLE \cup FLUX_TARGET_REPLACE_MODULE_SINGLE

\* train_blocks None is "all"
UnetTargets(train_blocks) ==
    IF train_blocks \in {"None", "all"}
    THEN FLUX_TARGET_REPLACE_MODULE_DOUBLE \cup FLUX_TARGET_REPLACE_MODULE_SINGLE
    ELSE IF train_blocks = "single" THEN FLUX_TARGET_REPLACE_MODULE_SINGLE
    ELSE FLUX_TARGET_REPLACE_MODULE_DOUBLE

NamesOf(loras) == [i \in 1..Len(loras) |-> loras[i].lora_name]

\* a construction without the assertion
HasDuplicate_Never(names) == FALSE

\* the assertion that ends __init__
HasDuplicate(names) == \E i, j \in 1..Len(names) : i < j /\ names[i] = names[j]

NoNetwork == [text_encoder_loras |-> <<>>, unet_loras |-> <<>>, split_qkv |-> FALSE,
              modules |-> {}]

\* the two collections as create_modules returns them, before the assertion
Discover(base, cfg) ==
    LET te == TextEncoderLoras(base.text_encoders, 0, cfg,
                               [loras |-> <<>>, skipped |-> <<>>, err |-> "none"])
        un == CreateModules(TRUE, 0, base.unet, UnetTargets(cfg.train_blocks), cfg)
    IN  [ err |-> IF te.err # "none" THEN te.err ELSE un.err,
          text_encoder_loras |-> te.loras, unet_loras |-> un.loras,
          skipped |-> te.skipped \o un.skipped ]

\* LoRANetwork.__init__: [err, net]; net is the network when err = "none".
\* modules is the set of names add_module has registered: none before apply_to.
NetworkInit(base, cfg) ==
    LET d == Discover(base, cfg)
    IN  IF d.err # "none" THEN [err |-> d.err, net |-> NoNetwork]
        ELSE IF HasDuplicate(NamesOf(d.text_encoder_loras \o d.unet_loras))
             THEN [err |-> "AssertionError", net |-> NoNetwork]
        ELSE [ err |-> "none",
               net |-> [ text_encoder_loras |-> d.text_encoder_loras,
                         unet_loras |-> d.unet_loras,
                         split_qkv |-> cfg.split_qkv, modules |-> {} ] ]

\* create_network_from_weights: the arguments it hands to LoRANetwork
CreateNetworkFromWeights(weights_sd, for_inference) ==
    LET dim_keys == {key \in DOMAIN weights_sd :
                        ~KeyContains(key, "alpha") /\ KeyContains(key, "lora_down")}
        alpha_keys == {key \in DOMAIN weights_sd : KeyContains(key, "alpha")}
    IN  [ has_modules_dim |-> TRUE,
          modules_dim |-> [n \in {key.name : key \in dim_keys} |->
                              Rows(weights_sd[Key(n, "lora_down", -1)])],
          modules_alpha |-> [n \in {key.name : key \in alpha_keys} |->
                                weights_sd[Key(n, "alpha", -1)][1][1]],
          lora_dim |-> 4, alpha |-> 1, conv_lora_dim |-> <<>>, conv_alpha |-> 0,
          train_blocks |-> "None", split_qkv |-> FALSE,
          module_class |-> IF for_inference THEN "LoRAInfModule" ELSE "LoRAModule",
          train_t5xxl |-> \E key \in DOMAIN weights_sd : "lora_te3" \in Range(key.name) ]

(***************************************************************************)
(* Base models and constructor arguments the construction is tried with.   *)
(***************************************************************************)
Seg(token) == <<token>>
DOUBLE_BLOCKS == <<"double", "blocks">>
SINGLE_BLOCKS == <<"single", "blocks">>

\* a FLUX-like backbone: one double-stream and one single-stream block
FluxTree ==
    << Mod(<<>>, "Flux", 0, 0),
       Mod(<<Seg("img_in")>>, "Linear", MaxInDim, QkvDim),
       Mod(<<DOUBLE_BLOCKS>>, "ModuleList", 0, 0),
       Mod(<<DOUBLE_BLOCKS, Seg("0")>>, "DoubleStreamBlock", 0, 0),
       Mod(<<DOUBLE_BLOCKS, Seg("0"), <<"img", "attn">> >>, "SelfAttention", 0, 0),
       Mod(<<DOUBLE_BLOCKS, Seg("0"), <<"img", "attn">>, Seg("qkv")>>, "Linear",
           MaxInDim, 3 * QkvDim),
       Mod(<<SINGLE_BLOCKS>>, "ModuleList", 0, 0),
       Mod(<<SINGLE_BLOCKS, Seg("0")>>, "SingleStreamBlock", 0, 0),
       Mod(<<SINGLE_BLOCKS, Seg("0"), Seg("linear1")>>, "Linear",
           MaxInDim, (3 + MlpRatio) * QkvDim),
       Mod(<<SINGLE_BLOCKS, Seg("0"), Seg("linear2")>>, "Linear", MaxInDim, QkvDim) >>

\* a backbone without single-stream blocks
DoubleOnlyTree == SubSeq(FluxTree, 1, 6)

\* a single-stream block nested in a double-stream block
NestedTree ==
    << Mod(<<>>, "Flux", 0, 0),
       Mod(<<Seg("outer")>>, "DoubleStreamBlock", 0, 0),
       Mod(<<Seg("outer"), Seg("inner")>>, "SingleStreamBlock", 0, 0),
       Mod(<<Seg("outer"), Seg("inner"), Seg("linear2")>>, "Linear", MaxInDim, QkvDim) >>

\* two dotted paths that coincide once "." is "_": blk.mlp_0 and blk.mlp.0
CollideTree ==
    << Mod(<<>>, "Flux", 0, 0),
       Mod(<<Seg("blk")>>, "SingleStreamBlock", 0, 0),
       Mod(<<Seg("blk"), <<"mlp", "0">> >>, "Linear", MaxInDim, QkvDim),
       Mod(<<Seg("blk"), Seg("mlp")>>, "Sequential", 0, 0),
       Mod(<<Seg("blk"), Seg("mlp"), Seg("0")>>, "Linear", MaxInDim, QkvDim) >>

\* convolutions in a double-stream block
ConvTree ==
    << Mod(<<>>, "Flux", 0, 0),
       Mod(<<Seg("d")>>, "DoubleStreamBlock", 0, 0),
       Mod(<<Seg("d"), Seg("conv1")>>, "Conv2d1x1", MaxInDim, QkvDim),
       Mod(<<Seg("d"), Seg("conv3")>>, "Conv2d3x3", MaxInDim, QkvDim),
       Mod(<<Seg("s")>>, "SingleStreamBlock", 0, 0),
       Mod(<<Seg("s"), Seg("linear2")>>, "Linear", MaxInDim, QkvDim) >>

UnetTrees == {FluxTree, DoubleOnlyTree, NestedTree, CollideTree, ConvTree}

ClipTree ==
    << Mod(<<>>, "CLIPTextModel", 0, 0),
       Mod(<<Seg("attn")>>, "CLIPAttention", 0, 0),
       Mod(<<Seg("attn"), <<"q", "proj">> >>, "Linear", MaxInDim, QkvDim) >>

T5Tree ==
    << Mod(<<>>, "T5EncoderModel", 0, 0),
       Mod(<<Seg("attn")>>, "T5Attention", 0, 0),
       Mod(<<Seg("attn"), Seg("q")>>, "Linear", MaxInDim, QkvDim) >>

Bases == {[text_encoders |-> te, unet |-> u] : te \in {<<ClipTree>>, <<ClipTree, T5Tree>>},
                                                u \in UnetTrees}

EmptyMap == [n \in {} |-> 0]

\* arguments with a global rank (training)
GlobalCfgs ==
    { [ has_modules_dim |-> FALSE, modules_dim |-> EmptyMap, modules_alpha |-> EmptyMap,
        lora_dim |-> d, alpha |-> 1, conv_lora_dim |-> c, conv_alpha |-> 1,
        train_blocks |-> tb, split_qkv |-> q, module_class |-> mc, train_t5xxl |-> t5 ] :
        d \in 0..MaxRank, c \in {<<>>, <<1>>}, tb \in {"None", "all", "single", "double"},
        q \in BOOLEAN, mc \in {"LoRAModule", "LoRAInfModule"}, t5 \in BOOLEAN }

\* the names the weight files speak of
N_LINEAR2 == <<"lora_unet", "single", "blocks", "0", "linear2">>
N_QKV == <<"lora_unet", "double", "blocks", "0", "img", "attn", "qkv">>
N_CLIP == <<"lora_te1", "attn", "q", "proj">>
N_MLP0 == <<"lora_unet", "blk", "mlp", "0">>
FileNames == {N_LINEAR2, N_QKV, N_CLIP, N_MLP0}

\* a weight file: ranks[n] is the rank of n's lora_down (-1: n is not in the
\* file), and n has an alpha entry unless n is in no_alpha
FileOf(ranks, no_alpha) ==
    LET present == {n \in FileNames : ranks[n] >= 0}
    IN  [key \in {Key(n, c, -1) : n \in present, c \in {"lora_down", "lora_up"}}
                 \cup {Key(n, "alpha", -1) : n \in present \ no_alpha} |->
            IF key.part = "lora_down" THEN Tensor(1, ranks[key.name], MaxInDim)
            ELSE IF key.part = "lora_up" THEN Tensor(1, QkvDim, ranks[key.name])
            ELSE <<<<ranks[key.name]>>>>]

BuildFiles ==
    {FileOf(ranks, no_alpha) : ranks \in [FileNames -> {-1, 0, MaxRank}],
                               no_alpha \in {{}, {N_LINEAR2}}}

BuildInputs ==
    {[base |-> b, cfg |-> c] : b \in Bases, c \in GlobalCfgs}
    \cup {[base |-> b, cfg |-> CreateNetworkFromWeights(sd, inf)] :
             b \in Bases, sd \in BuildFiles, inf \in BOOLEAN}

InitBuild ==
    /\ IdleLife
    /\ inp \in BuildInputs
    /\ out = <<>>
    /\ pc = "init"

\* network = LoRANetwork(text_encoders, flux, ...)
BuildCall ==
    /\ pc = "init"
    /\ out' = NetworkInit(inp.base, inp.cfg)
    /\ pc' = "built"
    /\ UNCHANGED <<inp, lifeVars>>

SpecBuild == InitBuild /\ [][BuildCall]_vars

\* the network built from the same base model and arguments but for train_blocks
BuiltWith(train_blocks) == NetworkInit(inp.base, [inp.cfg EXCEPT !.train_blocks = train_blocks])

UnetNames(r) == Range(NamesOf(r.net.unet_loras))

\* a Linear or Conv2d under a single-stream block whose rank resolves to non-zero
SingleLeafWithRank ==
    \E leaf \in Range(Leaves(inp.base.unet, FLUX_TARGET_REPLACE_MODULE_SINGLE, 1)) :
        LET d == ResolveDim(inp.cfg, LoraName(LORA_PREFIX_FLUX, leaf.name, leaf.child_name),
                            leaf.child)
        IN  d.err = "none" /\ d.has /\ d.dim # 0

(***************************************************************************)
(* C7 as stated.  For the same base model, the backbone adapter names      *)
(* built with train_blocks = "single" are a non-empty set, disjoint from   *)
(* the names built with "double", and the union of the two is the set      *)
(* built with "all".                                                       *)
(***************************************************************************)
C7_SingleNonEmptyPartition ==
    (pc = "built")
       => /\ UnetNames(BuiltWith("single")) # {}
          /\ UnetNames(BuiltWith("single")) \cap UnetNames(BuiltWith("double")) = {}
          /\ UnetNames(BuiltWith("single")) \cup UnetNames(BuiltWith("double"))
                = UnetNames(BuiltWith("all"))

(***************************************************************************)
(* C7, amended.  Whenever the construction with train_blocks = "all"       *)
(* succeeds, so do the constructions with "single" and "double", their     *)
(* backbone name sets are disjoint and their union is the set built with   *)
(* "all" (and with train_blocks unset); the "single" set is non-empty      *)
(* exactly when a single-stream block of the base model holds a Linear or  *)
(* Conv2d whose rank resolves to a non-zero value.                         *)
(***************************************************************************)
C7_PartitionWhenBuilt ==
    (pc = "built" /\ BuiltWith("all").err = "none")
       => /\ BuiltWith("single").err = "none"
          /\ BuiltWith("double").err = "none"
          /\ UnetNames(BuiltWith("single")) \cap UnetNames(BuiltWith("double")) = {}
          /\ UnetNames(BuiltWith("single")) \cup UnetNames(BuiltWith("double"))
                = UnetNames(BuiltWith("all"))
          /\ UnetNames(BuiltWith("None")) = UnetNames(BuiltWith("all"))
          /\ (UnetNames(BuiltWith("single")) # {}) <=> SingleLeafWithRank

C7_Witness ==
    /\ pc = "built"
    /\ BuiltWith("all").err = "none"
    /\ UnetNames(BuiltWith("single")) # {}
    /\ UnetNames(BuiltWith("double")) # {}
    /\ inp.cfg.train_blocks = "single"
    /\ UnetNames(out) = UnetNames(BuiltWith("single"))

\* the names of the leaves create_modules visits for these arguments
RECURSIVE VisitedTE(_, _, _)
VisitedTE(text_encoders, index, cfg) ==
    IF index >= Len(text_encoders) \/ (~cfg.train_t5xxl /\ index > 0) THEN <<>>
    ELSE LET prefix == IF index = 0 THEN LORA_PREFIX_TEXT_ENCODER_CLIP
                       ELSE LORA_PREFIX_TEXT_ENCODER_T5
             leaves == Leaves(text_encoders[index + 1], TEXT_ENCODER_TARGET_REPLACE_MODULE, 1)
         IN  [i \in 1..Len(leaves) |-> LoraName(prefix, leaves[i].name, leaves[i].child_name)]
             \o VisitedTE(text_encoders, index + 1, cfg)

Visited(base, cfg) ==
    LET leaves == Leaves(base.unet, UnetTargets(cfg.train_blocks), 1)
    IN  VisitedTE(base.text_encoders, 0, cfg)
        \o [i \in 1..Len(leaves) |->
               LoraName(LORA_PREFIX_FLUX, leaves[i].name, leaves[i].child_name)]

Distinct(names) == Cardinality(Range(names)) = Len(names)

(***************************************************************************)
(* C8.  When the network is built from a per-name rank/alpha map, a        *)
(* candidate layer whose name is missing from the rank map or has rank 0   *)
(* is skipped without an error and is in no adapter collection, and a      *)
(* candidate layer whose name maps to a positive rank is present with that *)
(* rank.  (Stated for base models whose candidate names are distinct.)     *)
(***************************************************************************)
C8_MapDecidesPresence ==
    (pc = "built" /\ inp.cfg.has_modules_dim /\ Distinct(Visited(inp.base, inp.cfg)))
       => /\ out.err = "none"
          /\ \A n \in Range(Visited(inp.base, inp.cfg)) :
                LET here == {i \in 1..Len(Loras(out.net)) : Loras(out.net)[i].lora_name = n}
                IN  IF n \in DOMAIN inp.cfg.modules_dim /\ inp.cfg.modules_dim[n] > 0
                    THEN \E i \in here : Loras(out.net)[i].lora_dim = inp.cfg.modules_dim[n]
                    ELSE here = {}

(***************************************************************************)
(* C9.  A network that was constructed holds adapters with pairwise        *)
(* distinct names across the text-encoder and backbone collections; when   *)
(* discovery yields two adapters of the same name the construction fails   *)
(* and returns no network.                                                 *)
(***************************************************************************)
C9_NamesDistinctOrFailure ==
    (pc = "built")
       => /\ out.err = "none" => Distinct(NamesOf(Loras(out.net)))
          /\ LET d == Discover(inp.base, inp.cfg)
             IN  (d.err = "none" /\ ~Distinct(NamesOf(d.text_encoder_loras \o d.unet_loras)))
                    => out.err = "AssertionError"

C9_Witness ==
    /\ pc = "built"
    /\ inp.base.unet = NestedTree
    /\ Discover(inp.base, inp.cfg).err = "none"
    /\ ~Distinct(NamesOf(Discover(inp.base, inp.cfg).unet_loras))
    /\ out.err = "AssertionError"

(***************************************************************************)
(* LoRANetwork.state_dict / load_state_dict with the qkv split.            *)
(***************************************************************************)
\* the split the key's words select: "double" and "qkv", or "single" and
\* "linear1"; <<>> when the key is not of a fused layer
KeySplitDims(key) ==
    IF KeyContains(key, "double") /\ KeyContains(key, "qkv") THEN SplitDimsDouble
    ELSE IF KeyContains(key, "single") /\ KeyContains(key, "linear1") THEN SplitDimsSingle
    ELSE <<>>

\* torch's Module.state_dict(): the tensors of the modules add_module registered
TorchStateDict(nw, L) ==
    [key \in {k \in [name : nw.modules, part : DenseParts,
                     branch : -1..(Len(SplitDimsSingle) - 1)] :
                 SdKey(k.part, k.branch) \in DOMAIN ModuleStateDict(L[k.name])} |->
        ModuleStateDict(L[key.name])[SdKey(key.part, key.branch)]]

\* i of the loops over split_dims: the rows before branch j
Offset(split_dims, j) == SumSeq(SubSeq(split_dims, 1, j - 1))

\* torch.cat(ws, dim=0)
RECURSIVE CatRows(_)
CatRows(ws) == IF ws = <<>> THEN <<>> ELSE Head(ws) \o CatRows(Tail(ws))

\* up_weight of state_dict: zeros((sum(split_dims), down_weight.size(0))) with
\* up_weights[j] written at rows i..i+split_dims[j], columns j*rank..(j+1)*rank
MergeUp(up_weights, split_dims, cols) ==
    LET rank == Cols(up_weights[1])
        branch(a) == CHOOSE j \in 1..Len(split_dims) :
                        Offset(split_dims, j) < a /\ a <= Offset(split_dims, j) + split_dims[j]
    IN  [a \in 1..SumSeq(split_dims) |->
           [b \in 1..cols |->
              IF (branch(a) - 1) * rank < b /\ b <= branch(a) * rank
              THEN up_weights[branch(a)][a - Offset(split_dims, branch(a))][b - (branch(a) - 1) * rank]
              ELSE 0]]

\* LoRANetwork.state_dict: [err, sd].  Whether a key is of a fused layer depends
\* on the words of its lora_name only, so the loop over the keys is a loop over
\* the registered names; a fused name without the split-form tensors makes
\* state_dict.pop raise KeyError.
NetStateDict(nw, L) ==
    LET state_dict == TorchStateDict(nw, L)
        fused == {n \in nw.modules : KeySplitDims(Key(n, "alpha", -1)) # <<>>}
        split_dims(n) == KeySplitDims(Key(n, "alpha", -1))
        missing(n) == \E i \in 1..Len(split_dims(n)), p \in {"lora_down", "lora_up"} :
                         Key(n, p, i - 1) \notin DOMAIN state_dict
        down_weight(n) == CatRows([i \in 1..Len(split_dims(n)) |->
                                      state_dict[Key(n, "lora_down", i - 1)]])
        up_weight(n) == MergeUp([i \in 1..Len(split_dims(n)) |->
                                    state_dict[Key(n, "lora_up", i - 1)]],
                                split_dims(n), Rows(down_weight(n)))
    IN  IF ~nw.split_qkv THEN [err |-> "none", sd |-> state_dict]
        ELSE IF \E n \in fused : missing(n) THEN [err |-> "KeyError", sd |-> state_dict]
        ELSE [ err |-> "none",
               sd |-> [key \in {k \in DOMAIN state_dict : k.name \notin fused}
                               \cup {Key(n, p, -1) : n \in fused, p \in DenseParts} |->
                         IF key.name \notin fused THEN state_dict[key]
                         ELSE IF key.part = "lora_down" THEN down_weight(key.name)
                         ELSE IF key.part = "lora_up" THEN up_weight(key.name)
                         ELSE state_dict[key]] ]

\* torch.chunk(weight, n, dim=0): chunks of ceil(rows / n) rows
TorchChunk(weight, n) ==
    LET size == (Rows(weight) + n - 1) \div n
        count == IF size = 0 THEN 0 ELSE (Rows(weight) + size - 1) \div size
    IN  [i \in 1..count |->
           SubSeq(weight, (i - 1) * size + 1,
                  IF i * size < Rows(weight) THEN i * size ELSE Rows(weight))]

\* a slice that takes the first `rank` columns for every branch
SliceUp_FirstColumns(weight, split_dims, j, rank) ==
    [a \in 1..split_dims[j] |-> [b \in 1..rank |-> weight[Offset(split_dims, j) + a][b]]]

\* weight[i : i + split_dims[j], j * rank : (j + 1) * rank], j counted from 1
SliceUp(weight, split_dims, j, rank) ==
    LET first == Offset(split_dims, j)
        last == IF first + split_dims[j] < Rows(weight) THEN first + split_dims[j]
                ELSE Rows(weight)
        right == IF j * rank < Cols(weight) THEN j * rank ELSE Cols(weight)
    IN  [a \in 1..(last - first) |->
           [b \in 1..(right - (j - 1) * rank) |-> weight[first + a][(j - 1) * rank + b]]]

\* a dictionary in the combined form: no lora_down.<i> / lora_up.<i> key
DenseForm(sd) == \A key \in DOMAIN sd : key.branch = -1

\* the loop of load_state_dict over a dictionary in the combined form: the
\* lora_down.weight and lora_up.weight of the fused layers become the split keys
SplitForLoad(sd) ==
    LET split_dims(key) == KeySplitDims(key)
        is_down(key) == split_dims(key) # <<>> /\ KeyContains(key, "lora_down")
                           /\ KeyContains(key, "weight")
        is_up(key) == split_dims(key) # <<>> /\ ~is_down(key) /\ KeyContains(key, "lora_up")
                         /\ KeyContains(key, "weight")
        chunks(key) == TorchChunk(sd[key], Len(split_dims(key)))
        rank(key) == Cols(sd[key]) \div Len(split_dims(key))
        dense(k) == Key(k.name, k.part, -1)
        names == {key.name : key \in DOMAIN sd}
        branches == 0..(Len(SplitDimsSingle) - 1)
    IN  [k \in {key \in DOMAIN sd : ~is_down(key) /\ ~is_up(key)}
               \cup {x \in [name : names, part : {"lora_down"}, branch : branches] :
                        dense(x) \in DOMAIN sd /\ is_down(dense(x))
                        /\ x.branch < Len(chunks(dense(x)))}
               \cup {x \in [name : names, part : {"lora_up"}, branch : branches] :
                        dense(x) \in DOMAIN sd /\ is_up(dense(x))
                        /\ x.branch < Len(split_dims(dense(x)))} |->
           IF k.branch = -1 THEN sd[k]
           ELSE IF k.part = "lora_down" THEN chunks(dense(k))[k.branch + 1]
           ELSE SliceUp(sd[dense(k)], split_dims(dense(k)), k.branch + 1, rank(dense(k)))]

Shape(T) == <<Rows(T), Cols(T)>>

\* torch's Module.load_state_dict: every registered module copies the tensors
\* the dictionary has for it when the shapes agree; size mismatches, and with
\* strict the missing and the unexpected keys, raise RuntimeError after the
\* copies.  [err, lora]
TorchLoad(nw, L, sd, strict) ==
    LET own == TorchStateDict(nw, L)
        fits(key) == key \in DOMAIN sd /\ Shape(sd[key]) = Shape(own[key])
        take(n, part, branch, cur) ==
            IF Key(n, part, branch) \in DOMAIN own /\ fits(Key(n, part, branch))
            THEN sd[Key(n, part, branch)] ELSE cur
        loaded(n) ==
            IF Len(L[n].split_dims) = 0
            THEN [L[n] EXCEPT !.lora_down = take(n, "lora_down", -1, @),
                              !.lora_up = take(n, "lora_up", -1, @),
                              !.alpha = take(n, "alpha", -1, <<<<@>>>>)[1][1]]
            ELSE [L[n] EXCEPT
                    !.lora_down = [i \in 1..Len(@) |-> take(n, "lora_down", i - 1, @[i])],
                    !.lora_up = [i \in 1..Len(@) |-> take(n, "lora_up", i - 1, @[i])],
                    !.alpha = take(n, "alpha", -1, <<<<@>>>>)[1][1]]
    IN  [ err |-> IF \/ \E key \in DOMAIN own \cap DOMAIN sd : ~fits(key)
                     \/ strict /\ DOMAIN own # DOMAIN sd
                  THEN "RuntimeError" ELSE "none",
          lora |-> [n \in DOMAIN L |-> IF n \in nw.modules THEN loaded(n) ELSE L[n]] ]

\* LoRANetwork.load_state_dict for a dictionary in the combined form
LoadStateDict(nw, L, sd, strict) ==
    IF ~nw.split_qkv THEN TorchLoad(nw, L, sd, strict)
    ELSE TorchLoad(nw, L, SplitForLoad(sd), strict)

(***************************************************************************)
(* Specification of serialization: a network constructed on the FLUX-like  *)
(* base model, trained to some tensors, then apply_to, state_dict and      *)
(* load_state_dict in any order.                                           *)
(***************************************************************************)
SerialBase == [text_encoders |-> <<ClipTree>>, unet |-> FluxTree]

SerialCfgs ==
    {[c EXCEPT !.alpha = c.lora_dim] :
        c \in {g \in GlobalCfgs : /\ g.lora_dim >= 1 /\ g.conv_lora_dim = <<>>
                                  /\ g.train_blocks = "all" /\ ~g.train_t5xxl}}

N_LINEAR1 == <<"lora_unet", "single", "blocks", "0", "linear1">>

\* the module object of an adapter create_modules made; sd and su seed its
\* tensors.  split_dims is already <<>> for a LoRAInfModule.
Instantiate(a, multiplier, sd, su) ==
    NewLoRAModule(multiplier, a.lora_dim, a.alpha, a.in_dim, a.out_dim, a.split_dims, sd, su)

InitSerial ==
    \E c \in SerialCfgs, sd \in 1..2, su \in 0..1 :
      \E r \in {NetworkInit(SerialBase, c)} :
        \E all \in {r.net.text_encoder_loras \o r.net.unet_loras} :
          /\ r.err = "none"
          /\ inp = [base |-> SerialBase, cfg |-> c]
          /\ net = [ text_encoder_loras |-> NamesOf(r.net.text_encoder_loras),
                     unet_loras         |-> NamesOf(r.net.unet_loras),
                     multiplier         |-> 1,
                     split_qkv          |-> r.net.split_qkv,
                     modules            |-> {} ]
          /\ lora = [n \in Range(NamesOf(all)) |->
                       Instantiate(all[CHOOSE i \in 1..Len(all) : all[i].lora_name = n],
                                   1, sd, su)]
          /\ org = [n \in Range(NamesOf(all)) |->
                      LET a == all[CHOOSE i \in 1..Len(all) : all[i].lora_name = n]
                      IN  NewLinear(Tensor(1, a.out_dim, a.in_dim))]
          /\ ret = Ret("__init__", NoArg, "none")
          /\ phase = "none"
          /\ folds = 0
          /\ out = <<>>
          /\ pc = "built"

\* sd = network.state_dict()
StateDictCall ==
    /\ out' = NetStateDict(net, lora)
    /\ ret' = Ret("state_dict", NoArg, out'.err)
    /\ pc' = "state_dict"
    /\ UNCHANGED <<net, lora, org, phase, folds, inp>>

\* network.load_state_dict(sd) with the dictionary state_dict() returned
LoadStateDictCall ==
    /\ pc \in {"state_dict", "loaded"}
    /\ out.err = "none"
    /\ DenseForm(out.sd)
    /\ LET r == LoadStateDict(net, lora, out.sd, TRUE)
       IN  /\ lora' = r.lora
           /\ ret' = Ret("load_state_dict", NoArg, r.err)
    /\ pc' = "loaded"
    /\ UNCHANGED <<net, org, phase, folds, inp, out>>

NextSerial ==
    \/ \E te \in BOOLEAN, un \in BOOLEAN : ApplyTo(te, un)
    \/ StateDictCall
    \/ LoadStateDictCall

SpecSerial == InitSerial /\ [][NextSerial]_vars

(***************************************************************************)
(* C5.  Serializing a split-QKV network with state_dict and loading the    *)
(* result into the same network with load_state_dict reproduces every      *)
(* branch's down weight and up weight exactly and leaves alpha unchanged,  *)
(* for the 3-way split of the double-stream qkv layers and the 4-way split *)
(* of the single-stream linear1 layers.                                    *)
(***************************************************************************)
C5_RoundTrip ==
    [][(ret.op = "state_dict" /\ ret.err = "none" /\ ret'.op = "load_state_dict")
          => /\ ret'.err = "none"
             /\ \A n \in DOMAIN lora :
                   /\ lora'[n].lora_down = lora[n].lora_down
                   /\ lora'[n].lora_up = lora[n].lora_up
                   /\ lora'[n].alpha = lora[n].alpha]_vars

C5_Witness ==
    /\ ret.op = "load_state_dict"
    /\ ret.err = "none"
    /\ net.split_qkv
    /\ {N_QKV, N_LINEAR1} \subseteq net.modules
    /\ Len(lora[N_QKV].split_dims) = 3
    /\ Len(lora[N_LINEAR1].split_dims) = 4
    /\ lora[N_QKV].lora_up[2][1][1] # 0
    /\ lora[N_LINEAR1].lora_up[4][1][1] # 0

(***************************************************************************)
(* C6.  state_dict() returns a dictionary without any split-form key       *)
(* (lora_down.<i>.weight, lora_up.<i>.weight): every adapter of the        *)
(* module tree, split in memory or not, has exactly one lora_down.weight,  *)
(* one lora_up.weight and one alpha entry, and without split mode the      *)
(* dictionary is exactly the adapters' raw tensors.                        *)
(***************************************************************************)
C6_StateDictIsDense ==
    (ret.op = "state_dict")
       => /\ out.err = "none"
          /\ DenseForm(out.sd)
          /\ DOMAIN out.sd = {Key(n, p, -1) : n \in net.modules, p \in DenseParts}
          /\ ~net.split_qkv => out.sd = TorchStateDict(net, lora)

(***************************************************************************)
(* Specification of network merge_to on a base model in which one target   *)
(* layer's name extends another's: blk.a and blk.a_b give the adapters     *)
(* lora_unet_blk_a and lora_unet_blk_a_b.  The network is made by          *)
(* create_network_from_weights(for_inference=True) from one weight file    *)
(* and merge_to is called with any of the files.                           *)
(***************************************************************************)
PrefixTree ==
    << Mod(<<>>, "Flux", 0, 0),
       Mod(<<Seg("blk")>>, "SingleStreamBlock", 0, 0),
       Mod(<<Seg("blk"), Seg("a")>>, "Linear", MaxInDim, QkvDim),
       Mod(<<Seg("blk"), <<"a", "b">> >>, "Linear", MaxInDim, QkvDim) >>

PrefixBase == [text_encoders |-> <<ClipTree>>, unet |-> PrefixTree]

P_A == <<"lora_unet", "blk", "a">>
P_AB == <<"lora_unet", "blk", "a", "b">>

\* a rank-1 weight file for the adapters in S
PrefixFile(S, seed) ==
    [key \in {Key(n, c, -1) : n \in S, c \in DenseParts} |->
        IF key.part = "lora_down"
        THEN Tensor(seed + (IF key.name = P_AB THEN 2 ELSE 0), 1, MaxInDim)
        ELSE IF key.part = "lora_up" THEN Tensor(seed, QkvDim, 1)
        ELSE <<<<seed>>>>]

PrefixFiles == {PrefixFile(S, seed) : S \in (SUBSET {P_A, P_AB, N_CLIP}) \ {{}}, seed \in 1..2}

InitPrefix ==
    /\ \E sd \in PrefixFiles, multiplier \in Multipliers :
         \E r \in {NetworkInit(PrefixBase, CreateNetworkFromWeights(sd, TRUE))} :
           \E all \in {r.net.text_encoder_loras \o r.net.unet_loras} :
             /\ r.err = "none"
             /\ net = [ text_encoder_loras |-> NamesOf(r.net.text_encoder_loras),
                        unet_loras         |-> NamesOf(r.net.unet_loras),
                        multiplier         |-> multiplier,
                        split_qkv          |-> r.net.split_qkv,
                        modules            |-> {} ]
             /\ lora = [n \in Range(NamesOf(all)) |->
                          LET a == all[CHOOSE i \in 1..Len(all) : all[i].lora_name = n]
                          IN  NewLoRAInfModule(multiplier, a.lora_dim, a.alpha,
                                               a.in_dim, a.out_dim)]
             /\ org = [n \in Range(NamesOf(all)) |->
                         LET a == all[CHOOSE i \in 1..Len(all) : all[i].lora_name = n]
                         IN  NewLinear(Tensor(1, a.out_dim, a.in_dim))]
    /\ ret = Ret("__init__", NoArg, "none")
    /\ phase = "none"
    /\ folds = 0
    /\ IdleFun

NextPrefix == \E sd \in PrefixFiles : MergeTo(sd)

SpecPrefix == InitPrefix /\ [][NextPrefix]_vars

\* the entries "<lora_name>.<rest>" of a weight dictionary, keyed by "<rest>"
OwnEntries(sd, n) ==
    [k \in {SdKey(key.part, key.branch) : key \in {x \in DOMAIN sd : x.name = n}} |->
        sd[Key(n, k.part, k.branch)]]

(***************************************************************************)
(* C11 as stated.  Network merge_to hands each adapter exactly the entries *)
(* "<adapter_name>.<rest>" of the weight dictionary, as "<rest>", and no   *)
(* entry of another adapter, also when the adapter's name is a proper      *)
(* prefix of another adapter's name.                                       *)
(***************************************************************************)
C11_OwnNamespaceOnly ==
    (ret.op = "merge_to")
       => \A n \in Targets(net) : SdForLora(ret.arg, n) = OwnEntries(ret.arg, n)

(***************************************************************************)
(* C11, amended.  Network merge_to hands each adapter every entry whose    *)
(* key starts with the adapter's name, cut after the name: its own entries *)
(* "<adapter_name>.<rest>" as "<rest>", and with them the entries of every *)
(* adapter whose name extends its name, under keys that begin with the     *)
(* rest of that name.  The adapter's merge reads its own entries only, so  *)
(* the merged weights are those of a merge with exactly its own entries.   *)
(***************************************************************************)
C11_PrefixEntriesHanded ==
    [][(ret'.op = "merge_to")
          => \A n \in Targets(net') :
                LET sd == ret'.arg
                    handed == SdForLora(sd, n)
                    own == OwnEntries(sd, n)
                IN  /\ \A k \in DOMAIN own : k \in DOMAIN handed /\ handed[k] = own[k]
                    /\ \A k \in DOMAIN handed :
                          /\ Key(n \o k.rest, k.part, k.branch) \in DOMAIN sd
                          /\ handed[k] = sd[Key(n \o k.rest, k.part, k.branch)]
                    /\ \A key \in DOMAIN sd :
                          IsPrefix(n, key.name)
                             => [rest |-> SubSeq(key.name, Len(n) + 1, Len(key.name)),
                                 part |-> key.part, branch |-> key.branch] \in DOMAIN handed
                    /\ ret'.err = "none"
                          => org'[n] = ModuleMergeTo(lora[n], org[n], own).o]_vars

C11_Witness ==
    /\ ret.op = "merge_to"
    /\ ret.err = "none"
    /\ {P_A, P_AB} \subseteq Targets(net)
    /\ [rest |-> <<"b">>, part |-> "lora_down", branch |-> -1] \in DOMAIN SdForLora(ret.arg, P_A)
    /\ org[P_A].weight # Tensor(1, QkvDim, MaxInDim)

(***************************************************************************)
(* set_loraplus_lr_ratio and prepare_optimizer_params_with_multiple_te_lrs *)
(* An optional number is <<>> (None) or <<v>>; a learning rate is a whole  *)
(* number of units.                                                        *)
(***************************************************************************)
\* Python's `a or b` for optional numbers: a when it is neither None nor 0
PyOr(a, b) == IF a # <<>> /\ a[1] # 0 THEN a ELSE b

\* lora.named_parameters(): the weights, not the alpha buffer
NamedParameters(l) == {k \in DOMAIN ModuleStateDict(l) : k.part # "alpha"} \cup OrgModuleKeys(l)

\* (a variant whose "lora" group takes every parameter, the up weights included)
ParamGroup_UpInBoth(loras, L, loraplus_ratio, key) ==
    UNION { {Key(loras[i], k.part, k.branch) :
                k \in {x \in NamedParameters(L[loras[i]]) :
                          key = "plus" => (loraplus_ratio # <<>> /\ x.part = "lora_up")}} :
            i \in 1..Len(loras) }

\* param_groups[key] of assemble_params, as the set of its keys
\* "<lora_name>.<name>"; key is "lora" or "plus"
ParamGroup(loras, L, loraplus_ratio, key) ==
    UNION { {Key(loras[i], k.part, k.branch) :
                k \in {x \in NamedParameters(L[loras[i]]) :
                          (loraplus_ratio # <<>> /\ x.part = "lora_up") <=> (key = "plus")}} :
            i \in 1..Len(loras) }

\* an assemble_params that returns the groups whose lr is 0 as well
GroupOf_KeepZero(loras, L, lr, loraplus_ratio, key) ==
    LET params == ParamGroup(loras, L, loraplus_ratio, key)
    IN  IF params = {} \/ lr = <<>> THEN <<>>
        ELSE << [ params |-> params,
                  lr |-> IF key = "plus" THEN lr[1] * loraplus_ratio[1] ELSE lr[1],
                  plus |-> key = "plus" ] >>

\* the body of the loop over param_groups: the group appended for `key`, if any
GroupOf(loras, L, lr, loraplus_ratio, key) ==
    LET params == ParamGroup(loras, L, loraplus_ratio, key)
        group_lr == IF key = "plus" THEN lr[1] * loraplus_ratio[1] ELSE lr[1]
    IN  IF params = {} THEN <<>>
        ELSE IF lr = <<>> THEN <<>>
        ELSE IF group_lr = 0 THEN <<>>
        ELSE << [params |-> params, lr |-> group_lr, plus |-> key = "plus"] >>

\* assemble_params: the groups in the order "lora", "plus"; the description of
\* a group is its field plus
AssembleParams(loras, L, lr, loraplus_ratio) ==
    GroupOf(loras, L, lr, loraplus_ratio, "lora")
    \o GroupOf(loras, L, lr, loraplus_ratio, "plus")

\* text_encoder_lr as a list of two: te is [given, list]
TextEncoderLrs(te, default_lr) ==
    IF ~te.given \/ Len(te.list) = 0 THEN <<default_lr, default_lr>>
    ELSE IF Len(te.list) = 1 THEN <<te.list[1], te.list[1]>>
    ELSE te.list

Tagged(groups, family) ==
    [i \in 1..Len(groups) |-> [ params |-> groups[i].params, lr |-> groups[i].lr,
                                plus |-> groups[i].plus, family |-> family ]]

\* prepare_optimizer_params_with_multiple_te_lrs: all_params, each group with
\* the family its lr_description names
PrepareOptimizerParams(nw, L, text_encoder_lr, unet_lr, default_lr) ==
    LET lrs == TextEncoderLrs(text_encoder_lr, default_lr)
        te_ratio == PyOr(nw.loraplus_text_encoder_lr_ratio, nw.loraplus_lr_ratio)
        te1_loras == SelectSeq(nw.text_encoder_loras,
                               LAMBDA n : n[1] = LORA_PREFIX_TEXT_ENCODER_CLIP)
        te3_loras == SelectSeq(nw.text_encoder_loras,
                               LAMBDA n : n[1] = LORA_PREFIX_TEXT_ENCODER_T5)
    IN  (IF Len(nw.text_encoder_loras) > 0
         THEN (IF Len(te1_loras) > 0
               THEN Tagged(AssembleParams(te1_loras, L, lrs[1], te_ratio), "textencoder 1")
               ELSE <<>>)
              \o (IF Len(te3_loras) > 0
                  THEN Tagged(AssembleParams(te3_loras, L, lrs[2], te_ratio), "textencoder 2")
                  ELSE <<>>)
         ELSE <<>>)
        \o (IF Len(nw.unet_loras) > 0
            THEN Tagged(AssembleParams(nw.unet_loras, L,
                                       IF unet_lr # <<>> THEN unet_lr ELSE default_lr,
                                       PyOr(nw.loraplus_unet_lr_ratio, nw.loraplus_lr_ratio)),
                        "unet")
            ELSE <<>>)

(***************************************************************************)
(* Specification of the optimizer groups: a training network made with a   *)
(* global rank or from a weight file, set_loraplus_lr_ratio, then          *)
(* prepare_optimizer_params_with_multiple_te_lrs.                          *)
(***************************************************************************)
N_T5 == <<"lora_te3", "attn", "q">>

\* the backbone without the single-stream linear1
OptimTree == SelectSeq(FluxTree, LAMBDA m : Flat(m.path) # SINGLE_BLOCKS \o <<"0", "linear1">>)

OptimBase == [text_encoders |-> <<ClipTree, T5Tree>>, unet |-> OptimTree]

OptimCfgs ==
    {g \in GlobalCfgs : /\ g.lora_dim = 1 /\ g.conv_lora_dim = <<>> /\ g.train_blocks = "all"
                        /\ g.module_class = "LoRAModule"}
    \cup {CreateNetworkFromWeights(PrefixFile(S, 1), FALSE) :
             S \in (SUBSET {N_T5, N_LINEAR2}) \ {{}}}

OptNum(S) == {<<>>} \cup {<<v>> : v \in S}

LrValues == OptNum(0..MaxLr)
RatioValues == OptNum({0, 2})

\* text_encoder_lr: None, [], [a] or [a, b]
TextEncoderLrArgs ==
    {[given |-> FALSE, list |-> <<>>], [given |-> TRUE, list |-> <<>>]}
    \cup {[given |-> TRUE, list |-> <<(<<a>>)>>] : a \in 0..MaxLr}
    \cup {[given |-> TRUE, list |-> <<(<<a>>), (<<b>>)>>] : a \in 0..MaxLr, b \in 0..MaxLr}

InitOptim ==
    /\ \E c \in OptimCfgs :
         \E r \in {NetworkInit(OptimBase, c)} :
           \E all \in {r.net.text_encoder_loras \o r.net.unet_loras} :
             /\ r.err = "none"
             /\ net = [ text_encoder_loras |-> NamesOf(r.net.text_encoder_loras),
                        unet_loras         |-> NamesOf(r.net.unet_loras),
                        multiplier         |-> 1,
                        split_qkv          |-> r.net.split_qkv,
                        modules            |-> {},
                        loraplus_lr_ratio  |-> <<>>,
                        loraplus_unet_lr_ratio |-> <<>>,
                        loraplus_text_encoder_lr_ratio |-> <<>> ]
             /\ lora = [n \in Range(NamesOf(all)) |->
                          Instantiate(all[CHOOSE i \in 1..Len(all) : all[i].lora_name = n],
                                      1, 1, 0)]
             /\ org = [n \in Range(NamesOf(all)) |->
                         LET a == all[CHOOSE i \in 1..Len(all) : all[i].lora_name = n]
                         IN  NewLinear(Zeros(a.out_dim, a.in_dim))]
    /\ ret = Ret("__init__", NoArg, "none")
    /\ phase = "none"
    /\ folds = 0
    /\ inp = <<>>
    /\ out = <<>>
    /\ pc = "built"

\* apply_to, called once, before the training steps
ApplyToFirst(apply_text_encoder, apply_unet) ==
    /\ pc = "built"
    /\ ret.op # "apply_to"
    /\ ApplyTo(apply_text_encoder, apply_unet)

\* create_network sets the ratios once
SetLoraplusLrRatio(loraplus_lr_ratio, loraplus_unet_lr_ratio, loraplus_text_encoder_lr_ratio) ==
    /\ pc = "built"
    /\ net' = [net EXCEPT !.loraplus_lr_ratio = loraplus_lr_ratio,
                          !.loraplus_unet_lr_ratio = loraplus_unet_lr_ratio,
                          !.loraplus_text_encoder_lr_ratio = loraplus_text_encoder_lr_ratio]
    /\ ret' = Ret("set_loraplus_lr_ratio", NoArg, "none")
    /\ pc' = "ratio"
    /\ UNCHANGED <<lora, org, phase, folds, inp, out>>

PrepareOptimizerParamsCall ==
    /\ pc = "ratio"
    /\ \E text_encoder_lr \in TextEncoderLrArgs, unet_lr \in LrValues, default_lr \in LrValues :
          /\ inp' = [text_encoder_lr |-> text_encoder_lr, unet_lr |-> unet_lr,
                     default_lr |-> default_lr]
          /\ out' = PrepareOptimizerParams(net, lora, text_encoder_lr, unet_lr, default_lr)
    /\ ret' = Ret("prepare_optimizer_params_with_multiple_te_lrs", NoArg, "none")
    /\ pc' = "prepared"
    /\ UNCHANGED <<net, lora, org, phase, folds>>

NextOptim ==
    \/ \E te \in {TRUE}, un \in {TRUE} : ApplyToFirst(te, un)
    \/ \E a \in RatioValues, b \in RatioValues, c \in RatioValues : SetLoraplusLrRatio(a, b, c)
    \/ PrepareOptimizerParamsCall

SpecOptim == InitOptim /\ [][NextOptim]_vars

\* the reading of the claim: the family's own ratio when it is set (a ratio of
\* 0 counts as not set), else the default ratio
ConfiguredRatio(specific, default) ==
    IF specific # <<>> /\ specific[1] # 0 THEN specific ELSE default

Families == {"textencoder 1", "textencoder 2", "unet"}

FamilyNames(family) ==
    IF family = "unet" THEN Range(net.unet_loras)
    ELSE {n \in Range(net.text_encoder_loras) :
             n[1] = (IF family = "textencoder 1" THEN "lora_te1" ELSE "lora_te3")}

FamilyBaseLr(family) ==
    IF family = "unet" THEN (IF inp.unet_lr # <<>> THEN inp.unet_lr ELSE inp.default_lr)
    ELSE LET i == IF family = "textencoder 1" THEN 1 ELSE 2
         IN  IF ~inp.text_encoder_lr.given \/ inp.text_encoder_lr.list = <<>>
             THEN inp.default_lr
             ELSE IF Len(inp.text_encoder_lr.list) = 1 THEN inp.text_encoder_lr.list[1]
             ELSE inp.text_encoder_lr.list[i]

FamilyRatio(family) ==
    ConfiguredRatio(IF family = "unet" THEN net.loraplus_unet_lr_ratio
                    ELSE net.loraplus_text_encoder_lr_ratio,
                    net.loraplus_lr_ratio)

FamilyParams(family, parts) ==
    UNION {{Key(n, k.part, k.branch) : k \in {x \in NamedParameters(lora[n]) : x.part \in parts}} :
              n \in FamilyNames(family)}

(***************************************************************************)
(* C12.  prepare_optimizer_params_with_multiple_te_lrs returns per family  *)
(* (text encoder 1, text encoder 2, backbone) at most two groups: one with *)
(* lr = base_lr and, when a LoRA+ ratio is configured for the family (its  *)
(* own ratio, else the default), one with the up-projection parameters and *)
(* lr = base_lr * ratio.  Every returned group has a non-zero lr; a group  *)
(* whose lr is zero or unset is not returned.                              *)
(***************************************************************************)
C12_GroupsPerFamily ==
    (pc = "prepared")
       => \A family \in Families :
             LET gs == {i \in 1..Len(out) : out[i].family = family}
                 plain == {i \in gs : ~out[i].plus}
                 plus == {i \in gs : out[i].plus}
                 base == FamilyBaseLr(family)
                 ratio == FamilyRatio(family)
                 weights == FamilyParams(family, {"lora_down", "lora_up", "org_module"})
                 ups == FamilyParams(family, {"lora_up"})
             IN  /\ Cardinality(gs) <= 2
                 /\ Cardinality(plain) <= 1
                 /\ Cardinality(plus) <= 1
                 /\ \A i \in gs : out[i].lr # 0
                 /\ (plain # {}) <=> (weights # {} /\ base # <<>> /\ base[1] # 0)
                 /\ \A i \in plain :
                       /\ out[i].lr = base[1]
                       /\ out[i].params = IF ratio = <<>> THEN weights ELSE weights \ ups
                 /\ (plus # {}) <=> (/\ weights # {} /\ base # <<>> /\ ratio # <<>>
                                     /\ base[1] * ratio[1] # 0)
                 /\ \A i \in plus :
                       /\ out[i].lr = base[1] * ratio[1]
                       /\ out[i].params = ups

C12_Witness ==
    /\ pc = "prepared"
    /\ Len(out) = 4
    /\ \E i, j \in 1..Len(out) : /\ out[i].family = "unet" /\ out[j].family = "unet"
                                 /\ out[i].plus /\ ~out[j].plus
                                 /\ out[i].lr = 2 * out[j].lr
    /\ net.loraplus_text_encoder_lr_ratio = <<0>>
    /\ \E i \in 1..Len(out) : out[i].family = "textencoder 2" /\ out[i].plus
    /\ \A i \in 1..Len(out) : out[i].family # "textencoder 1"
    /\ FamilyNames("textencoder 1") # {}

(***************************************************************************)
(* apply_max_norm_regularization.  The code takes square roots; the model  *)
(* keeps them symbolic: a module's tensors are its integer matrices        *)
(* lora_down and lora_up times the fourth root of the fraction `rescale`,  *)
(* so the delta up @ down carries the square root of `rescale` and its     *)
(* squared norm carries `rescale` itself.  Fractions are pairs <<num, den>>*)
(* of naturals in lowest terms; norms are compared by their squares.       *)
(***************************************************************************)
RECURSIVE GCD(_, _)
GCD(a, b) == IF b = 0 THEN a ELSE GCD(b, a % b)

Frac(num, den) == IF num = 0 THEN <<0, 1>> ELSE <<num \div GCD(num, den), den \div GCD(num, den)>>
FracMul(a, b) == Frac(a[1] * b[1], a[2] * b[2])
FracDiv(a, b) == Frac(a[1] * b[2], a[2] * b[1])
FracLe(a, b) == a[1] * b[2] <= b[1] * a[2]

\* the square of tensor.norm() for an integer matrix
SumSq(A) == SumTo([i \in 1..Rows(A) |-> SumTo([j \in 1..Cols(A) |-> A[i][j] * A[i][j]],
                                               Cols(A))], Rows(A))

\* x.clamp(min=lo) and torch.clamp(x, max=hi) on squares of non-negative numbers
ClampMin(x, lo) == IF FracLe(x, lo) THEN lo ELSE x
ClampMax(x, hi) == IF FracLe(hi, x) THEN hi ELSE x

\* whether state_dict()[key] is the parameter's own storage: the tensors of a
\* fused layer are made anew by torch.cat / torch.zeros when split_qkv is set
SharesStorage(nw, key) == ~nw.split_qkv \/ KeySplitDims(key) = <<>>

\* the loop body for one down key of state_dict, written for the module `l`
\* the key belongs to: [ratio_sq, scalednorm_sq]
MaxNormOne(sd, l, downkey, max_norm_value) ==
    LET down == sd[downkey]
        up == sd[[downkey EXCEPT !.part = "lora_up"]]
        alpha == sd[IF downkey.branch = -1 THEN [downkey EXCEPT !.part = "alpha"] ELSE downkey][1][1]
        dim == Rows(down)
        updown == MatMul(up, down)
        norm_sq == FracMul(Frac(SumSq(updown) * alpha * alpha, dim * dim), l.rescale)
        clamped == ClampMin(norm_sq, Frac(max_norm_value * max_norm_value, 4))
        desired == ClampMax(clamped, Frac(max_norm_value * max_norm_value, 1))
        ratio_sq == FracDiv(desired, clamped)
    IN  [ratio_sq |-> ratio_sq, scalednorm_sq |-> FracMul(norm_sq, ratio_sq)]

\* LoRANetwork.apply_max_norm_regularization, r being what self.state_dict()
\* gave: [err, lora, keys_scaled, max_norm_sq]
ApplyMaxNormRegularization(nw, L, r, max_norm_value) ==
    LET downkeys == {k \in DOMAIN r.sd : KeyContains(k, "lora_down") /\ KeyContains(k, "weight")}
        one(k) == MaxNormOne(r.sd, L[k.name], k, max_norm_value)
        scaled == {k \in downkeys : one(k).ratio_sq # <<1, 1>>}
        norms == {one(k).scalednorm_sq : k \in downkeys}
    IN  IF r.err # "none" THEN [err |-> r.err, lora |-> L, keys_scaled |-> 0, max_norm_sq |-> <<0, 1>>]
        ELSE IF downkeys = {}
        THEN [err |-> "ZeroDivisionError", lora |-> L, keys_scaled |-> 0, max_norm_sq |-> <<0, 1>>]
        ELSE [ err |-> "none",
               lora |-> [n \in DOMAIN L |->
                           IF \E k \in scaled : k.name = n /\ SharesStorage(nw, k)
                           THEN [L[n] EXCEPT !.rescale =
                                    FracMul(@, one(CHOOSE k \in scaled : k.name = n).ratio_sq)]
                           ELSE L[n]],
               keys_scaled |-> Cardinality(scaled),
               max_norm_sq |-> CHOOSE m \in norms : \A o \in norms : FracLe(o, m) ]

(***************************************************************************)
(* Specification of the max-norm regularization: a training network on a   *)
(* text encoder and a double-stream block, trained to some tensors, then   *)
(* apply_to and apply_max_norm_regularization.                             *)
(***************************************************************************)
NormBase == [text_encoders |-> <<ClipTree>>, unet |-> DoubleOnlyTree]

NormCfgs == {c \in SerialCfgs : c.module_class = "LoRAModule"}

\* small trained tensors: entry (i, j) is 0 or seed
Trained(seed, rows, cols) == [i \in 1..rows |-> [j \in 1..cols |-> seed * ((i + j) % 2)]]

TrainedModule(a, sd, su) ==
    [ [Instantiate(a, 1, sd, su) EXCEPT
         !.lora_down = IF Len(a.split_dims) = 0 THEN Trained(sd, a.lora_dim, a.in_dim)
                       ELSE [i \in 1..Len(a.split_dims) |-> Trained(sd, a.lora_dim, a.in_dim)],
         !.lora_up = IF Len(a.split_dims) = 0 THEN Trained(su, a.out_dim, a.lora_dim)
                     ELSE [i \in 1..Len(a.split_dims) |->
                             Trained(su, a.split_dims[i], a.lora_dim)]]
      EXCEPT !.org_module = TRUE ] @@ [rescale |-> <<1, 1>>]

InitNorm ==
    \E c \in NormCfgs, sd \in {1}, su \in 0..2 :
      \E r \in {NetworkInit(NormBase, c)} :
        \E all \in {r.net.text_encoder_loras \o r.net.unet_loras} :
          /\ r.err = "none"
          /\ inp = <<>>
          /\ net = [ text_encoder_loras |-> NamesOf(r.net.text_encoder_loras),
                     unet_loras         |-> NamesOf(r.net.unet_loras),
                     multiplier         |-> 1,
                     split_qkv          |-> r.net.split_qkv,
                     modules            |-> {} ]
          /\ lora = [n \in Range(NamesOf(all)) |->
                       TrainedModule(all[CHOOSE i \in 1..Len(all) : all[i].lora_name = n],
                                     sd, su)]
          /\ org = [n \in Range(NamesOf(all)) |->
                      LET a == all[CHOOSE i \in 1..Len(all) : all[i].lora_name = n]
                      IN  NewLinear(Zeros(a.out_dim, a.in_dim))]
          /\ ret = Ret("__init__", NoArg, "none")
          /\ phase = "none"
          /\ folds = 0
          /\ out = <<>>
          /\ pc = "built"

ApplyMaxNormRegularizationCall(max_norm_value) ==
    /\ \E state_dict \in {NetStateDict(net, lora)} :
        \E r \in {ApplyMaxNormRegularization(net, lora, state_dict, max_norm_value)} :
          /\ lora' = r.lora
          /\ out' = [keys_scaled |-> r.keys_scaled, max_norm_sq |-> r.max_norm_sq]
          /\ ret' = Ret("apply_max_norm_regularization", max_norm_value, r.err)
    /\ pc' = "regularized"
    /\ UNCHANGED <<net, org, phase, folds, inp>>

NextNorm ==
    \/ \E te \in BOOLEAN, un \in BOOLEAN : ApplyToFirst(te, un)
    \/ \E m \in 1..MaxNorm : ApplyMaxNormRegularizationCall(m)

SpecNorm == InitNorm /\ [][NextNorm]_vars

\* the adapter's delta from its own weights: up @ down, or the branches'
\* products one below the other
OwnDelta(l) ==
    IF Len(l.split_dims) = 0 THEN MatMul(l.lora_up, l.lora_down)
    ELSE CatRows([i \in 1..Len(l.split_dims) |-> MatMul(l.lora_up[i], l.lora_down[i])])

\* the square of the norm of (alpha / rank) * delta
OwnNormSq(l) == FracMul(Frac(SumSq(OwnDelta(l)) * l.alpha * l.alpha, l.lora_dim * l.lora_dim),
                        l.rescale)

Exceeds(l, max_norm_value) == ~FracLe(OwnNormSq(l), Frac(max_norm_value * max_norm_value, 1))

(***************************************************************************)
(* C13.  After apply_max_norm_regularization(max_norm) every adapter of    *)
(* the network, split-QKV adapters included, has a delta norm (from its    *)
(* own weights and its own alpha / rank) of at most max_norm; an adapter   *)
(* whose norm was at most max_norm already keeps its weights and is not    *)
(* counted; the returned count is the number of adapters whose norm        *)
(* exceeded max_norm and the returned maximum is at most max_norm.         *)
(***************************************************************************)
C13_NormAtMostMax ==
    [][(ret'.op = "apply_max_norm_regularization" /\ ret'.err = "none")
          => /\ \A n \in Targets(net) : ~Exceeds(lora'[n], ret'.arg)
             /\ \A n \in Targets(net) : ~Exceeds(lora[n], ret'.arg) => lora'[n] = lora[n]
             /\ out'.keys_scaled = Cardinality({n \in Targets(net) : Exceeds(lora[n], ret'.arg)})
             /\ FracLe(out'.max_norm_sq, Frac(ret'.arg * ret'.arg, 1))]_vars

(***************************************************************************)
(* Specification of the constructors: module_class(lora_name, org_module,  *)
(* multiplier, lora_dim, alpha, split_dims=split_dims) for both classes.   *)
(***************************************************************************)
ConstructInputs ==
    { [ module_class |-> mc, child |-> Mod(<<>>, cls, i, o), lora_dim |-> r, alpha |-> a,
        split_dims |-> q ] :
        mc \in {"LoRAModule", "LoRAInfModule"}, cls \in LeafClasses,
        i \in 1..MaxInDim, o \in {QkvDim, SumSeq(SplitDimsDouble), SumSeq(SplitDimsSingle)},
        r \in 1..MaxRank, a \in 0..1, q \in SplitChoices \cup {<<QkvDim>>} }

InitConstruct ==
    /\ IdleLife
    /\ inp \in ConstructInputs
    /\ out = <<>>
    /\ pc = "construct"

\* out.module is the object made, when no assertion failed
ConstructCall ==
    /\ pc = "construct"
    /\ \E a \in {NewAdapter(inp.module_class, <<"lora_unet", "x">>, inp.child, inp.lora_dim,
                            inp.alpha, inp.split_dims)} :
          out' = [err |-> a.err,
                  module |-> IF a.err = "none" THEN <<Instantiate(a.lora, 1, 1, 0)>> ELSE <<>>]
    /\ pc' = "constructed"
    /\ UNCHANGED <<inp, lifeVars>>

SpecConstruct == InitConstruct /\ [][ConstructCall]_vars

(***************************************************************************)
(* C14.  Constructing an adapter of either class with split_dims given     *)
(* fails unless the target is a plain Linear layer and sum(split_dims) is  *)
(* the target's output dimension; when it succeeds the adapter is in split *)
(* mode, with one down/up branch per entry of split_dims and the branches' *)
(* output widths equal to split_dims.                                      *)
(***************************************************************************)
C14_SplitDimsValidated ==
    (pc = "constructed" /\ inp.split_dims # <<>> /\ out.err = "none")
       => /\ inp.child.cls = "Linear"
          /\ SumSeq(inp.split_dims) = inp.child.out_dim
          /\ out.module[1].split_dims = inp.split_dims
          /\ Len(out.module[1].lora_down) = Len(inp.split_dims)
          /\ Len(out.module[1].lora_up) = Len(inp.split_dims)
          /\ \A i \in 1..Len(inp.split_dims) :
                /\ Rows(out.module[1].lora_up[i]) = inp.split_dims[i]
                /\ Cols(out.module[1].lora_down[i]) = inp.child.in_dim

(***************************************************************************)
(* C15.  Original statement: a second apply_to for the same target         *)
(* corrupts the reference chain: afterwards the adapter's saved            *)
(* original-forward reference no longer denotes the target layer's         *)
(* original computation, so the layer's forward is no longer base(x) plus  *)
(* one adapter delta.                                                      *)
(***************************************************************************)
\* the call about to be recorded in ret' reaches a module apply_to ran on before
SecondApplyTo == ret'.op = "apply_to" /\ \E n \in Targets(net') : ~lora[n].org_module

C15_SecondApplyCorrupts ==
    [][SecondApplyTo
          => \E n \in Targets(net') :
                /\ ~lora[n].org_module
                /\ lora'[n].org_forward # "base"
                /\ \E x \in Inputs :
                      LayerForward(lora'[n], org'[n], x)
                         # InfForward(lora'[n], MatVec(org'[n].weight, x), x)]_vars

(***************************************************************************)
(* C15, as the code has it.  A second apply_to that reaches an adapter     *)
(* apply_to ran on before raises AttributeError (self.org_module was       *)
(* deleted by the first call) before it patches anything: every adapter    *)
(* and every target layer is as it was, the saved org_forward of an        *)
(* applied adapter is still the layer's original forward, and the patched  *)
(* layer still computes base(x) plus one adapter delta.                    *)
(***************************************************************************)
C15_SecondApplyRaises ==
    [][SecondApplyTo
          => /\ ret'.err = "AttributeError"
             /\ lora' = lora
             /\ org' = org
             /\ \A n \in DOMAIN lora :
                   ~lora[n].org_module
                      => /\ lora'[n].org_forward = "base"
                         /\ org'[n].forward = "lora"
                         /\ \A x \in Inputs :
                               LayerForward(lora'[n], org'[n], x)
                                  = InfForward(lora'[n], MatVec(org'[n].weight, x), x)]_vars

C15_Witness ==
    /\ ret.op = "apply_to"
    /\ ret.err = "AttributeError"
    /\ \E n \in Targets(net) : /\ ~lora[n].org_module
                               /\ lora[n].org_forward = "base"
                               /\ org[n].forward = "lora"

(***************************************************************************)
(* C16.  Original statement: after network apply_to, the dictionary        *)
(* state_dict() gives contains exactly the lora_down, lora_up and alpha    *)
(* keys of the adapters that remain in the network's collections and no    *)
(* entry of a base layer (org_module is not a child module); the adapters  *)
(* of a dropped family contribute no key.                                  *)
(***************************************************************************)
\* the names whose keys the dictionary holds
SdNames(sd) == {k.name : k \in DOMAIN sd}

\* sd has a lora_down, a lora_up and an alpha entry of every adapter in S and
\* no other entry
AdapterKeysOf(sd, S) ==
    /\ SdNames(sd) = S
    /\ \A k \in DOMAIN sd : k.part \in DenseParts
    /\ \A n \in S : \A p \in DenseParts : \E k \in DOMAIN sd : k.name = n /\ k.part = p

C16_KeysOfRemainingAdapters ==
    (ret.op = "state_dict" /\ net.modules # {})
       => /\ out.err = "none"
          /\ AdapterKeysOf(out.sd, Targets(net))
          /\ \A n \in net.modules : OrgModuleKeys(lora[n]) = {}

(***************************************************************************)
(* C16, as the code has it.  The dictionary holds the keys of the adapters *)
(* apply_to registered with add_module: the adapters that were in the      *)
(* collections when apply_to first ran.  No registered adapter has its     *)
(* base layer as a child, since the module's apply_to deletes org_module   *)
(* before the adapter is registered; the adapters of a family dropped by   *)
(* that apply_to contribute no key, while an adapter dropped from the      *)
(* collections by a later call keeps its keys.  state_dict() raises        *)
(* KeyError instead of returning when split_qkv is set and a registered    *)
(* adapter of a fused layer is not split (inference class).                *)
(***************************************************************************)
UnsplitFused(n) == KeySplitDims(Key(n, "alpha", -1)) # <<>> /\ Len(lora[n].split_dims) = 0

C16_KeysOfRegisteredAdapters ==
    (ret.op = "state_dict" /\ net.modules # {})
       => /\ \A n \in net.modules : OrgModuleKeys(lora[n]) = {}
          /\ \A n \in DOMAIN lora : n \notin net.modules => OrgModuleKeys(lora[n]) # {}
          /\ Targets(net) \subseteq net.modules
          /\ out.err = (IF net.split_qkv /\ \E n \in net.modules : UnsplitFused(n)
                        THEN "KeyError" ELSE "none")
          /\ out.err = "none" => AdapterKeysOf(out.sd, net.modules)

C16_Witness ==
    /\ ret.op = "state_dict"
    /\ out.err = "none"
    /\ net.modules = {N_QKV, N_LINEAR1, N_LINEAR2, <<"lora_unet", "img", "in">>} \cap DOMAIN lora
    /\ N_CLIP \in DOMAIN lora
    /\ N_CLIP \notin SdNames(out.sd)
    /\ N_QKV \in SdNames(out.sd)
    /\ Targets(net) = net.modules

(***************************************************************************)
(* library/lumina_util.py: convert_diffusers_sd_to_alpha_vllm.             *)
(* A string is the sequence of its pieces: ".", "()", each decimal digit,  *)
(* and each maximal run of other characters.  `in` and str.replace are     *)
(* then substring search and replacement on these sequences.  A dictionary *)
(* is the sequence of its [key, value] entries in insertion order.         *)
(***************************************************************************)
\* the table in its order; is_list marks a replacement written as a
\* one-element list, whose element `replacement` then is
DIFFUSERS_TO_ALPHA_VLLM_MAP ==
    << [pattern |-> <<"cap_embedder", ".", "0", ".", "weight">>,
        replacement |-> <<"time_caption_embed", ".", "caption_embedder", ".", "0", ".", "weight">>,
        is_list |-> TRUE],
       [pattern |-> <<"cap_embedder", ".", "1", ".", "weight">>,
        replacement |-> <<"time_caption_embed", ".", "caption_embedder", ".", "1", ".", "weight">>,
        is_list |-> FALSE],
       [pattern |-> <<"cap_embedder", ".", "1", ".", "bias">>,
        replacement |-> <<"text_embedder", ".", "1", ".", "bias">>,
        is_list |-> FALSE],
       [pattern |-> <<"x_embedder", ".", "weight">>,
        replacement |-> <<"patch_embedder", ".", "proj", ".", "weight">>,
        is_list |-> FALSE],
       [pattern |-> <<"x_embedder", ".", "bias">>,
        replacement |-> <<"patch_embedder", ".", "proj", ".", "bias">>,
        is_list |-> FALSE],
       [pattern |-> <<"layers", ".", "()", ".", "adaLN_modulation", ".", "1", ".", "weight">>,
        replacement |-> <<"transformer_blocks", ".", "()", ".", "adaln_modulation", ".", "1", ".", "weight">>,
        is_list |-> FALSE],
       [pattern |-> <<"layers", ".", "()", ".", "adaLN_modulation", ".", "1", ".", "bias">>,
        replacement |-> <<"transformer_blocks", ".", "()", ".", "adaln_modulation", ".", "1", ".", "bias">>,
        is_list |-> FALSE],
       [pattern |-> <<"final_layer", ".", "adaLN_modulation", ".", "1", ".", "weight">>,
        replacement |-> <<"final_adaln_modulation", ".", "1", ".", "weight">>,
        is_list |-> FALSE],
       [pattern |-> <<"final_layer", ".", "adaLN_modulation", ".", "1", ".", "bias">>,
        replacement |-> <<"final_adaln_modulation", ".", "1", ".", "bias">>,
        is_list |-> FALSE],
       [pattern |-> <<"final_layer", ".", "linear", ".", "weight">>,
        replacement |-> <<"final_linear", ".", "weight">>,
        is_list |-> FALSE],
       [pattern |-> <<"final_layer", ".", "linear", ".", "bias">>,
        replacement |-> <<"final_linear", ".", "bias">>,
        is_list |-> FALSE],
       [pattern |-> <<"noise_refiner", ".", "()", ".", "adaLN_modulation", ".", "1", ".", "weight">>,
        replacement |-> <<"single_transformer_blocks", ".", "()", ".", "adaln_modulation", ".", "1", ".", "weight">>,
        is_list |-> FALSE],
       [pattern |-> <<"noise_refiner", ".", "()", ".", "adaLN_modulation", ".", "1", ".", "bias">>,
        replacement |-> <<"single_transformer_blocks", ".", "()", ".", "adaln_modulation", ".", "1", ".", "bias">>,
        is_list |-> FALSE],
       [pattern |-> <<"noise_refiner", ".", "()", ".", "attention", ".", "qkv", ".", "weight">>,
        replacement |-> <<"single_transformer_blocks", ".", "()", ".", "attn", ".", "to_qkv", ".", "weight">>,
        is_list |-> FALSE],
       [pattern |-> <<"noise_refiner", ".", "()", ".", "attention", ".", "out", ".", "weight">>,
        replacement |-> <<"single_transformer_blocks", ".", "()", ".", "attn", ".", "to_out", ".", "0", ".", "weight">>,
        is_list |-> FALSE],
       [pattern |-> <<"t_embedder", ".", "mlp", ".", "0", ".", "weight">>,
        replacement |-> <<"time_embedder", ".", "0", ".", "weight">>,
        is_list |-> FALSE],
       [pattern |-> <<"t_embedder", ".", "mlp", ".", "0", ".", "bias">>,
        replacement |-> <<"time_embedder", ".", "0", ".", "bias">>,
        is_list |-> FALSE],
       [pattern |-> <<"t_embedder", ".", "mlp", ".", "2", ".", "weight">>,
        replacement |-> <<"time_embedder", ".", "2", ".", "weight">>,
        is_list |-> FALSE],
       [pattern |-> <<"t_embedder", ".", "mlp", ".", "2", ".", "bias">>,
        replacement |-> <<"time_embedder", ".", "2", ".", "bias">>,
        is_list |-> FALSE],
       [pattern |-> <<"context_refiner", ".", "()", ".", "attention", ".", "qkv", ".", "weight">>,
        replacement |-> <<"transformer_blocks", ".", "()", ".", "attn", "2", ".", "to_qkv", ".", "weight">>,
        is_list |-> FALSE],
       [pattern |-> <<"context_refiner", ".", "()", ".", "attention", ".", "out", ".", "weight">>,
        replacement |-> <<"transformer_blocks", ".", "()", ".", "attn", "2", ".", "to_out", ".", "0", ".", "weight">>,
        is_list |-> FALSE],
       [pattern |-> <<"layers", ".", "()", ".", "attention_norm", "1", ".", "weight">>,
        replacement |-> <<"transformer_blocks", ".", "()", ".", "norm", "1", ".", "weight">>,
        is_list |-> FALSE],
       [pattern |-> <<"layers", ".", "()", ".", "attention_norm", "2", ".", "weight">>,
        replacement |-> <<"transformer_blocks", ".", "()", ".", "norm", "2", ".", "weight">>,
        is_list |-> FALSE],
       [pattern |-> <<"layers", ".", "()", ".", "feed_forward", ".", "w", "1", ".", "weight">>,
        replacement |-> <<"transformer_blocks", ".", "()", ".", "ff", ".", "net", ".", "0", ".", "proj", ".", "weight">>,
        is_list |-> FALSE],
       [pattern |-> <<"layers", ".", "()", ".", "feed_forward", ".", "w", "2", ".", "weight">>,
        replacement |-> <<"transformer_blocks", ".", "()", ".", "ff", ".", "net", ".", "2", ".", "weight">>,
        is_list |-> FALSE],
       [pattern |-> <<"layers", ".", "()", ".", "feed_forward", ".", "w", "3", ".", "weight">>,
        replacement |-> <<"transformer_blocks", ".", "()", ".", "ff", ".", "net", ".", "4", ".", "weight">>,
        is_list |-> FALSE] >>

Digit(d) == <<"0", "1", "2", "3", "4", "5", "6", "7", "8", "9">>[d + 1]

\* str(block_idx)
RECURSIVE Str(_)
Str(i) == IF i < 10 THEN <<Digit(i)>> ELSE Str(i \div 10) \o <<Digit(i % 10)>>

\* t in s
Contains(s, t) == \E i \in 0..(Len(s) - Len(t)) : SubSeq(s, i + 1, i + Len(t)) = t

\* s.replace(old, new): the occurrences of old from the left, not overlapping
RECURSIVE Replace(_, _, _)
Replace(s, old, new) ==
    IF Len(s) < Len(old) THEN s
    ELSE IF SubSeq(s, 1, Len(old)) = old
         THEN new \o Replace(SubSeq(s, Len(old) + 1, Len(s)), old, new)
    ELSE <<Head(s)>> \o Replace(Tail(s), old, new)

\* the inner loop over block_idx with its break, for one pattern: the first
\* block index whose digits occur anywhere in the key decides
BlockLoop(key, new_key, entry, num_double_blocks) ==
    LET found == {i \in 0..(num_double_blocks - 1) : Contains(key, Str(i))}
    IN  IF found = {} THEN new_key
        ELSE LET block_idx == CHOOSE i \in found : \A o \in found : i <= o
                 converted == Replace(entry.pattern, <<"()">>, Str(block_idx))
             IN  Replace(key, converted, Replace(entry.replacement, <<"()">>, Str(block_idx)))

\* the loop over the table from entry j on: a pattern without "()." does nothing
RECURSIVE PatternLoop(_, _, _, _)
PatternLoop(key, new_key, j, num_double_blocks) ==
    IF j > Len(DIFFUSERS_TO_ALPHA_VLLM_MAP) THEN new_key
    ELSE PatternLoop(key,
                     IF Contains(DIFFUSERS_TO_ALPHA_VLLM_MAP[j].pattern, <<"()", ".">>)
                     THEN BlockLoop(key, new_key, DIFFUSERS_TO_ALPHA_VLLM_MAP[j],
                                    num_double_blocks)
                     ELSE new_key,
                     j + 1, num_double_blocks)

\* new_key of one key
NewKey(key, num_double_blocks) == PatternLoop(key, key, 1, num_double_blocks)

\* (a dictionary in which a key that is there already keeps its value)
DictSet_KeepFirst(dict, key, value) ==
    IF \E i \in 1..Len(dict) : dict[i].key = key THEN dict
    ELSE Append(dict, [key |-> key, value |-> value])

\* new_sd[new_key] = value
DictSet(dict, key, value) ==
    IF \E i \in 1..Len(dict) : dict[i].key = key
    THEN [i \in 1..Len(dict) |-> IF dict[i].key = key THEN [key |-> key, value |-> value]
                                  ELSE dict[i]]
    ELSE Append(dict, [key |-> key, value |-> value])

RECURSIVE ConvertFrom(_, _, _, _)
ConvertFrom(sd, num_double_blocks, i, new_sd) ==
    IF i > Len(sd) THEN new_sd
    ELSE ConvertFrom(sd, num_double_blocks, i + 1,
                     DictSet(new_sd, NewKey(sd[i].key, num_double_blocks), sd[i].value))

convert_diffusers_sd_to_alpha_vllm(sd, num_double_blocks) ==
    ConvertFrom(sd, num_double_blocks, 1, <<>>)

(***************************************************************************)
(* Specification of the conversion as a function of a small dictionary and *)
(* a block count.                                                          *)
(***************************************************************************)
IsBlockPattern(entry) == Contains(entry.pattern, <<"()", ".">>)

\* the keys the table speaks of, for the block indices below MaxBlocks
TableKeys ==
    UNION {IF IsBlockPattern(DIFFUSERS_TO_ALPHA_VLLM_MAP[j])
           THEN {Replace(DIFFUSERS_TO_ALPHA_VLLM_MAP[j].pattern, <<"()">>, Str(i)) :
                    i \in 0..(MaxBlocks - 1)}
           ELSE {DIFFUSERS_TO_ALPHA_VLLM_MAP[j].pattern} :
           j \in 1..Len(DIFFUSERS_TO_ALPHA_VLLM_MAP)}

\* keys of no pattern: one without digits, one of a layer the table does not
\* name, and one that already has the converted form
K_PAD == <<"pad_token">>
K_OTHER == <<"layers", ".", "0", ".", "attention", ".", "qkv", ".", "weight">>
K_CONVERTED == <<"transformer_blocks", ".", "0", ".", "ff", ".", "net", ".", "4", ".", "weight">>
K_W3 == <<"layers", ".", "0", ".", "feed_forward", ".", "w", "3", ".", "weight">>

\* the keys with a leading "model."
Prefixed(keys) == {<<"model", ".">> \o k : k \in keys}

ConvertKeys ==
    TableKeys \cup {K_PAD, K_OTHER, K_CONVERTED}
    \cup Prefixed({k \in TableKeys : ~Contains(k, <<"2">>) /\ ~Contains(k, <<"1", "0">>)})

\* dictionaries of one entry, and of two entries one of which is K_CONVERTED
ConvertDicts ==
    {<<[key |-> k, value |-> 1]>> : k \in ConvertKeys}
    \cup {<<[key |-> p[1], value |-> 1], [key |-> p[2], value |-> 2]>> :
             p \in {q \in {K_W3, K_CONVERTED, K_PAD} \X {K_W3, K_CONVERTED, K_OTHER} :
                       q[1] # q[2]}}

InitConvert ==
    /\ IdleLife
    /\ inp \in [sd : ConvertDicts, num_double_blocks : 0..MaxBlocks]
    /\ out = <<>>
    /\ pc = "convert"

ConvertCall ==
    /\ pc = "convert"
    /\ out' = convert_diffusers_sd_to_alpha_vllm(inp.sd, inp.num_double_blocks)
    /\ pc' = "converted"
    /\ UNCHANGED <<inp, lifeVars>>

SpecConvert == InitConvert /\ [][ConvertCall]_vars

\* the substitutions the table stands for with n blocks: [old, new]
Substitutions(n) ==
    UNION {IF IsBlockPattern(DIFFUSERS_TO_ALPHA_VLLM_MAP[j])
           THEN {[old |-> Replace(DIFFUSERS_TO_ALPHA_VLLM_MAP[j].pattern, <<"()">>, Str(i)),
                  new |-> Replace(DIFFUSERS_TO_ALPHA_VLLM_MAP[j].replacement, <<"()">>, Str(i))] :
                    i \in 0..(n - 1)}
           ELSE {[old |-> DIFFUSERS_TO_ALPHA_VLLM_MAP[j].pattern,
                  new |-> DIFFUSERS_TO_ALPHA_VLLM_MAP[j].replacement]} :
           j \in 1..Len(DIFFUSERS_TO_ALPHA_VLLM_MAP)}

DictKeys(dict) == {dict[i].key : i \in 1..Len(dict)}
DictGet(dict, key) == dict[CHOOSE i \in 1..Len(dict) : dict[i].key = key].value

(***************************************************************************)
(* C17.  For every input key that contains a pattern of the table (its     *)
(* "()" replaced by a block index below n), the output holds the input's   *)
(* value under the key with that substring replaced by the table's         *)
(* replacement for the same index, and not under the original key; for     *)
(* every pattern and every block index below n, multi-digit ones included. *)
(***************************************************************************)
C17_EveryPatternConverted ==
    (pc = "converted")
       => \A e \in Range(inp.sd) : \A s \in Substitutions(inp.num_double_blocks) :
             Contains(e.key, s.old)
                => /\ Replace(e.key, s.old, s.new) \in DictKeys(out)
                   /\ DictGet(out, Replace(e.key, s.old, s.new)) = e.value
                   /\ (Len(inp.sd) = 1 => e.key \notin DictKeys(out))

(***************************************************************************)
(* C18.  Original statement: every input key that contains no pattern of   *)
(* the table (for any block index below n) is in the output under the      *)
(* same key with the same value, and the input dictionary is unmodified.   *)
(***************************************************************************)
Unmatched(key, n) == \A s \in Substitutions(n) : ~Contains(key, s.old)

C18_UnmatchedPassThrough ==
    [][(pc' = "converted")
          => /\ inp' = inp
             /\ \A e \in Range(inp.sd) :
                   Unmatched(e.key, inp.num_double_blocks)
                      => e.key \in DictKeys(out') /\ DictGet(out', e.key) = e.value]_vars

(***************************************************************************)
(* C18, as the code has it.  Every input key that contains no pattern of   *)
(* the table is a key of the output, and the input dictionary is           *)
(* unmodified.  The value under it is the input's value unless a later     *)
(* entry of the input, whose key contains a pattern, is converted to the   *)
(* same key: the output then holds the later entry's value.                *)
(***************************************************************************)
C18_UnmatchedKeptUnlessOverwritten ==
    [][(pc' = "converted")
          => /\ inp' = inp
             /\ \A i \in 1..Len(inp.sd) :
                   Unmatched(inp.sd[i].key, inp.num_double_blocks)
                      => LET later == {j \in (i + 1)..Len(inp.sd) :
                                          /\ ~Unmatched(inp.sd[j].key, inp.num_double_blocks)
                                          /\ inp.sd[j].key \notin DictKeys(out')}
                         IN  /\ inp.sd[i].key \in DictKeys(out')
                             /\ DictGet(out', inp.sd[i].key)
                                   \in {inp.sd[i].value} \cup {inp.sd[j].value : j \in later}
                             /\ Len(out') = Len(inp.sd)
                                   => DictGet(out', inp.sd[i].key) = inp.sd[i].value]_vars

C18_Witness ==
    /\ pc = "converted"
    /\ inp.num_double_blocks = MaxBlocks
    /\ inp.sd = <<[key |-> K_PAD, value |-> 1], [key |-> K_W3, value |-> 2]>>
    /\ out = <<[key |-> K_PAD, value |-> 1], [key |-> K_CONVERTED, value |-> 2]>>

(***************************************************************************)
(* LoRAModule.forward with its dropout policy.  A probability is a pair    *)
(* <<num, den>>; the policy of a module is [dropout, rank_dropout,         *)
(* module_dropout, training], each probability None (<<>>) or <<p>>.  The  *)
(* random draws of one call are `d`: module_drop says torch.rand(1) fell   *)
(* below module_dropout, dmask and rmask are the 0/1 masks of the element  *)
(* dropout and of the rank dropout (batch size 1; the branches of a split  *)
(* module are given the same draw).                                        *)
(***************************************************************************)
\* 1.0 / (1.0 - p); the probabilities of the model keep it integral
KeepFactor(p) == p[2] \div (p[2] - p[1])

\* torch.nn.functional.dropout(lx, p=p): dropped elements are zero, the
\* others are scaled by 1 / (1 - p)
Dropout(lx, p, mask) == [k \in 1..Len(lx) |-> lx[k] * mask[k] * KeepFactor(p)]

\* lx * mask
VecMul(u, v) == [k \in 1..Len(u) |-> u[k] * v[k]]

\* (a variant that applies the dropout policy whatever self.training is)
Active_AnyMode(prob, training) == Len(prob) > 0

\* `self.<x>dropout is not None and self.training`
Active(prob, training) == Len(prob) > 0 /\ training

\* one branch up to the rank dropout: lora_down, element dropout, rank mask
BranchLx(down, pol, d, x) ==
    LET lx0 == MatVec(down, x)
        lx1 == IF Active(pol.dropout, pol.training)
               THEN Dropout(lx0, pol.dropout[1], d.dmask) ELSE lx0
    IN  IF Active(pol.rank_dropout, pol.training) THEN VecMul(lx1, d.rmask) ELSE lx1

\* torch.cat(lxs, dim=-1) of the branches i.. of a split module
RECURSIVE CatLxs(_, _, _, _, _)
CatLxs(l, pol, d, x, i) ==
    IF i > Len(l.split_dims) THEN <<>>
    ELSE MatVec(l.lora_up[i], BranchLx(l.lora_down[i], pol, d, x))
            \o CatLxs(l, pol, d, x, i + 1)

\* LoRAModule.forward, given org_forward(x): [err, y]
Forward(l, pol, d, org_forwarded, x) ==
    LET scale == IF Active(pol.rank_dropout, pol.training)
                 THEN l.scale * KeepFactor(pol.rank_dropout[1]) ELSE l.scale
    IN  IF Active(pol.module_dropout, pol.training) /\ d.module_drop
        THEN [err |-> "none", y |-> org_forwarded]
        ELSE IF Len(l.split_dims) = 0
        THEN [err |-> "none",
              y |-> VecAdd(org_forwarded,
                           VecScale(l.multiplier * scale,
                                    MatVec(l.lora_up, BranchLx(l.lora_down, pol, d, x))))]
        \* the mask loop of the split branch reads `lx`, a local that only the
        \* non-split branch assigns
        ELSE IF Active(pol.rank_dropout, pol.training)
        THEN [err |-> "UnboundLocalError", y |-> <<>>]
        ELSE [err |-> "none",
              y |-> VecAdd(org_forwarded,
                           VecScale(l.multiplier * scale, CatLxs(l, pol, d, x, 1)))]

\* the forward of the module's class
ClassForward(cls, l, pol, d, org_forwarded, x) ==
    IF cls = "LoRAInfModule" THEN [err |-> "none", y |-> InfForward(l, org_forwarded, x)]
    ELSE Forward(l, pol, d, org_forwarded, x)

(***************************************************************************)
(* Specification of the forward pass of one patched layer: a module of     *)
(* either class is constructed on a Linear layer (su = 0: the up weights   *)
(* are as __init__ left them; su > 0: training or a load has moved them),  *)
(* apply_to patches the layer, an inference module may be disabled, and    *)
(* the layer is called once.                                               *)
(***************************************************************************)
Half == <<1, 2>>
Probabilities == {<<>>, <<Half>>}

Policies ==
    [dropout : Probabilities, rank_dropout : Probabilities, module_dropout : Probabilities,
     training : BOOLEAN]

\* LoRAInfModule.__init__ passes no dropout on; torch modules start in training mode
NoDropout(training) ==
    [dropout |-> <<>>, rank_dropout |-> <<>>, module_dropout |-> <<>>, training |-> training]

\* the draws of one call; a draw the policy never looks at is left at one value
Draws(pol, lora_dim) ==
    [module_drop : IF Active(pol.module_dropout, pol.training) THEN BOOLEAN ELSE {FALSE},
     dmask : IF Active(pol.dropout, pol.training)
             THEN [1..lora_dim -> {0, 1}] ELSE {[k \in 1..lora_dim |-> 1]},
     rmask : IF Active(pol.rank_dropout, pol.training)
             THEN [1..lora_dim -> {0, 1}] ELSE {[k \in 1..lora_dim |-> 1]}]

ForwardMultipliers == 0..MaxMultiplier

ForwardInputs ==
    { [ cls |-> c.cls, su |-> c.su, pol |-> c.pol, x |-> x,
        l |-> NewLoRAModule(c.m, c.r, c.a * c.r, c.i,
                            IF Len(c.q) = 0 THEN QkvDim ELSE SumSeq(c.q), c.q, 1, c.su),
        o |-> NewLinear(Tensor(1, IF Len(c.q) = 0 THEN QkvDim ELSE SumSeq(c.q), c.i)) ] :
        c \in { k \in [cls : {"LoRAModule", "LoRAInfModule"}, m : ForwardMultipliers,
                       r : 1..MaxRank, a : 1..2, i : 1..MaxInDim,
                       q : {<<>>, SplitDimsDouble}, su : 0..1, pol : Policies] :
                   k.cls = "LoRAInfModule" => (k.q = <<>> /\ k.pol = NoDropout(k.pol.training)) },
        x \in UnitInputs(MaxInDim) }

InitForward ==
    /\ IdleLife
    /\ inp \in {f \in ForwardInputs : Len(f.x) = Cols(f.o.weight)}
    /\ out = [l |-> inp.l, o |-> inp.o, err |-> "none", y |-> <<>>]
    /\ pc = "built"

\* LoRAModule.apply_to
ModuleApplyTo ==
    /\ pc = "built"
    /\ out' = [out EXCEPT !.l.org_forward = out.o.forward, !.l.org_module = FALSE,
                          !.o.forward = "lora"]
    /\ pc' = "applied"
    /\ UNCHANGED <<inp, lifeVars>>

\* lora.enabled = False on an inference module
Disable ==
    /\ pc = "applied"
    /\ inp.cls = "LoRAInfModule"
    /\ out.l.enabled
    /\ out' = [out EXCEPT !.l.enabled = FALSE]
    /\ pc' = pc
    /\ UNCHANGED <<inp, lifeVars>>

\* the patched layer called with x
ForwardCall ==
    /\ pc = "applied"
    /\ \E d \in Draws(inp.pol, out.l.lora_dim) :
         \E r \in {ClassForward(inp.cls, out.l, inp.pol, d, MatVec(out.o.weight, inp.x), inp.x)} :
            out' = [out EXCEPT !.err = r.err, !.y = r.y]
    /\ pc' = "forwarded"
    /\ UNCHANGED <<inp, lifeVars>>

NextForward == ModuleApplyTo \/ Disable \/ ForwardCall

SpecForward == InitForward /\ [][NextForward]_vars

\* base(x) of the call
BaseOut == MatVec(inp.o.weight, inp.x)

(***************************************************************************)
(* C19.  For a non-split adapter in evaluation mode the patched layer's    *)
(* forward returns base(x) + multiplier * scale * (up @ (down @ x)) with   *)
(* scale = alpha / rank (stated without the division: rank times the       *)
(* difference to base(x) is multiplier * alpha * (up @ down) x); for an    *)
(* inference-variant adapter with enabled = false it returns exactly       *)
(* base(x), whatever the adapter's weights and multiplier are.             *)
(***************************************************************************)
C19_EvalForward ==
    (pc = "forwarded" /\ Len(out.l.split_dims) = 0)
       => /\ (inp.cls = "LoRAInfModule" /\ ~out.l.enabled)
                => (out.err = "none" /\ out.y = BaseOut)
          /\ ((inp.cls = "LoRAInfModule" /\ out.l.enabled)
                \/ (inp.cls = "LoRAModule" /\ ~inp.pol.training))
                => /\ out.err = "none"
                   /\ VecScale(out.l.lora_dim, out.y)
                        = VecAdd(VecScale(out.l.lora_dim, BaseOut),
                                 VecScale(out.l.multiplier * out.l.alpha,
                                          MatVec(MatMul(out.l.lora_up, out.l.lora_down), inp.x)))

\* a training module with every dropout configured is called in evaluation
\* mode and its delta is not zero
C19_Witness ==
    /\ pc = "forwarded"
    /\ inp.cls = "LoRAModule"
    /\ Len(out.l.split_dims) = 0
    /\ ~inp.pol.training
    /\ inp.pol.dropout # <<>> /\ inp.pol.rank_dropout # <<>> /\ inp.pol.module_dropout # <<>>
    /\ out.l.multiplier = MaxMultiplier
    /\ out.l.alpha = 2 * out.l.lora_dim
    /\ out.err = "none"
    /\ out.y # BaseOut

(***************************************************************************)
(* C20.  A freshly constructed adapter, non-split or split, has all its    *)
(* up weights zero, so after apply_to the patched layer's forward output   *)
(* is the base layer's output exactly, for every input and multiplier.     *)
(***************************************************************************)
C20_FreshForwardIsBase ==
    (pc = "forwarded" /\ inp.su = 0)
       => /\ out.l.lora_up = (IF Len(out.l.split_dims) = 0
                              THEN Zeros(Rows(out.o.weight), out.l.lora_dim)
                              ELSE [b \in 1..Len(out.l.split_dims) |->
                                      Zeros(out.l.split_dims[b], out.l.lora_dim)])
          /\ out.err = "none"
          /\ out.y = BaseOut

(***************************************************************************)
(* C21.  In training mode with rank_dropout = p configured (no other       *)
(* dropout), forward of a split-mode adapter completes and returns base(x) *)
(* plus multiplier * scale / (1 - p) times the concatenation, in branch    *)
(* order, of up_i applied to the branch's down_i x with whole rank         *)
(* channels zeroed by a mask of the branch's own.                          *)
(***************************************************************************)
\* the concatenation of the branches i.. with the rank masks `masks`
RECURSIVE MaskedCat(_, _, _, _)
MaskedCat(l, masks, x, i) ==
    IF i > Len(l.split_dims) THEN <<>>
    ELSE MatVec(l.lora_up[i], VecMul(MatVec(l.lora_down[i], x), masks[i]))
            \o MaskedCat(l, masks, x, i + 1)

C21_SplitRankDropout ==
    (/\ pc = "forwarded"
     /\ inp.cls = "LoRAModule"
     /\ Len(out.l.split_dims) > 0
     /\ inp.pol.training
     /\ inp.pol.rank_dropout # <<>>
     /\ inp.pol.dropout = <<>>
     /\ inp.pol.module_dropout = <<>>)
       => /\ out.err = "none"
          /\ \E masks \in [1..Len(out.l.split_dims) -> [1..out.l.lora_dim -> {0, 1}]] :
                out.y = VecAdd(BaseOut,
                               VecScale(out.l.multiplier * out.l.scale
                                           * KeepFactor(inp.pol.rank_dropout[1]),
                                        MaskedCat(out.l, masks, inp.x, 1)))

(***************************************************************************)
(* Specification of LoRAInfModule.get_weight as a function: an inference   *)
(* module with loaded weights on a Linear layer, and the optional          *)
(* multiplier argument.                                                    *)
(***************************************************************************)
\* None, or a multiplier that may differ from self.multiplier
MultiplierArgs == {<<>>} \cup {<<k>> : k \in 0..(MaxMultiplier + 1)}

GetWeightInputs ==
    { [ l |-> NewLoRAModule(m, r, a * r, i, QkvDim, <<>>, sd, su),
        o |-> NewLinear(Tensor(1, QkvDim, i)),
        multiplier |-> k ] :
        m \in Multipliers, r \in 1..MaxRank, a \in 1..2, i \in 1..MaxInDim,
        sd \in 1..2, su \in 1..2, k \in MultiplierArgs }

InitGetWeight ==
    /\ IdleLife
    /\ inp \in GetWeightInputs
    /\ out = <<>>
    /\ pc = "get_weight"

\* get_weight reads the module's tensors and assigns nothing but locals
GetWeightCall ==
    /\ pc = "get_weight"
    /\ out' = [weight |-> GetWeight(inp.l, inp.multiplier), l |-> inp.l, o |-> inp.o]
    /\ pc' = "returned"
    /\ UNCHANGED <<inp, lifeVars>>

SpecGetWeight == InitGetWeight /\ [][GetWeightCall]_vars

(***************************************************************************)
(* C22.  get_weight(m) with an explicit multiplier m returns m * scale *   *)
(* (up @ down), get_weight() without argument returns self.multiplier *    *)
(* scale * (up @ down), and neither call changes the base layer's weight,  *)
(* the adapter's weights or the adapter's multiplier.                      *)
(***************************************************************************)
C22_GetWeightUsesArgument ==
    (pc = "returned")
       => /\ out.weight =
                MatScale((IF inp.multiplier = <<>> THEN inp.l.multiplier ELSE inp.multiplier[1])
                            * inp.l.scale,
                         MatMul(inp.l.lora_up, inp.l.lora_down))
          /\ out.l = inp.l
          /\ out.o = inp.o

(***************************************************************************)
(* Specification of saving a split network and rebuilding it from the      *)
(* saved dictionary: a training network with split_qkv on the FLUX-like    *)
(* base model, apply_to, state_dict, and then create_network_from_weights  *)
(* on the dictionary, apply_to of the new network and load_state_dict of   *)
(* the dictionary into it.  alpha is a multiple of AlphaUnit * rank, so    *)
(* that alpha / rank is integral for the split modules and for the         *)
(* rebuilt ones, whose rank is 3 or 4 times as large.                      *)
(***************************************************************************)
AlphaUnit == Len(SplitDimsDouble) * Len(SplitDimsSingle)

RebuildCfgs ==
    {[c EXCEPT !.alpha = k * AlphaUnit * c.lora_dim] :
        c \in {g \in SerialCfgs : g.split_qkv /\ g.module_class = "LoRAModule"},
        k \in 1..3}

InitRebuild ==
    \E c \in RebuildCfgs, sd \in 1..2, su \in 0..2 :
      \E r \in {NetworkInit(SerialBase, c)} :
        \E all \in {r.net.text_encoder_loras \o r.net.unet_loras} :
          /\ r.err = "none"
          /\ inp = [base |-> SerialBase, cfg |-> c]
          /\ net = [ text_encoder_loras |-> NamesOf(r.net.text_encoder_loras),
                     unet_loras         |-> NamesOf(r.net.unet_loras),
                     multiplier         |-> 1,
                     split_qkv          |-> r.net.split_qkv,
                     modules            |-> {} ]
          /\ lora = [n \in Range(NamesOf(all)) |->
                       Instantiate(all[CHOOSE i \in 1..Len(all) : all[i].lora_name = n],
                                   1, sd, su)]
          /\ org = [n \in Range(NamesOf(all)) |->
                      LET a == all[CHOOSE i \in 1..Len(all) : all[i].lora_name = n]
                      IN  NewLinear(Tensor(1, a.out_dim, a.in_dim))]
          /\ ret = Ret("__init__", NoArg, "none")
          /\ phase = "none"
          /\ folds = 0
          /\ out = <<>>
          /\ pc = "built"

\* sd = network.state_dict() of the applied network
SaveCall ==
    /\ pc = "built"
    /\ ret.op = "apply_to"
    /\ StateDictCall

\* network2, weights_sd = create_network_from_weights(..., weights_sd=sd);
\* network2.apply_to(...); network2.load_state_dict(weights_sd) on a fresh
\* copy of the base model.  out.lora holds the modules of network2.
RebuildCall(for_inference) ==
    /\ pc = "state_dict"
    /\ out.err = "none"
    /\ \E r \in {NetworkInit(inp.base, CreateNetworkFromWeights(out.sd, for_inference))} :
        \E all \in {r.net.text_encoder_loras \o r.net.unet_loras} :
         \E nw \in {[ text_encoder_loras |-> NamesOf(r.net.text_encoder_loras),
                      unet_loras         |-> NamesOf(r.net.unet_loras),
                      multiplier         |-> 1,
                      split_qkv          |-> r.net.split_qkv,
                      modules            |-> {} ]} :
          \E st \in {ApplyLoop(Loras(nw),
                        [ lora |-> [n \in Range(NamesOf(all)) |->
                                      Instantiate(all[CHOOSE i \in 1..Len(all) :
                                                         all[i].lora_name = n], 1, 1, 0)],
                          org |-> [n \in Range(NamesOf(all)) |-> NewLinear(org[n].weight)],
                          modules |-> {}, err |-> "none" ])} :
           \E ld \in {LoadStateDict([nw EXCEPT !.modules = st.modules], st.lora, out.sd, TRUE)} :
              /\ out' = [ sd |-> out.sd,
                          err |-> IF r.err # "none" THEN r.err
                                  ELSE IF st.err # "none" THEN st.err ELSE ld.err,
                          net |-> [nw EXCEPT !.modules = st.modules],
                          lora |-> ld.lora ]
              /\ ret' = Ret("load_state_dict", for_inference, out'.err)
    /\ pc' = "rebuilt"
    /\ UNCHANGED <<net, lora, org, phase, folds, inp>>

NextRebuild ==
    \/ ApplyToFirst(TRUE, TRUE)
    \/ SaveCall
    \/ \E for_inference \in BOOLEAN : RebuildCall(for_inference)

SpecRebuild == InitRebuild /\ [][NextRebuild]_vars

\* scale * (up @ down), for a split module the branches' scale * (up_i @ down_i)
\* one below the other
EffectiveDelta(l) ==
    IF Len(l.split_dims) = 0 THEN MatScale(l.scale, MatMul(l.lora_up, l.lora_down))
    ELSE MatScale(l.scale,
                  CatRows([i \in 1..Len(l.split_dims) |-> MatMul(l.lora_up[i], l.lora_down[i])]))

(***************************************************************************)
(* C23.  A split-QKV adapter that is serialized with state_dict() and then *)
(* rebuilt as a non-split adapter by create_network_from_weights and       *)
(* loaded with the serialized tensors has the effective delta scale *      *)
(* (up @ down) of the original split adapter.                              *)
(***************************************************************************)
C23_RebuiltDeltaEqual ==
    (pc = "rebuilt")
       => /\ out.err = "none"
          /\ \A n \in net.modules :
                Len(lora[n].split_dims) > 0
                   => /\ n \in out.net.modules
                      /\ Len(out.lora[n].split_dims) = 0
                      /\ EffectiveDelta(out.lora[n]) = EffectiveDelta(lora[n])

(***************************************************************************)
(* C24.  Original statement: whenever the resolved base learning rate of   *)
(* every family is non-zero, each down and up weight of every adapter in   *)
(* the network's collections is in exactly one parameter group returned by *)
(* prepare_optimizer_params_with_multiple_te_lrs, for every setting of the *)
(* three LoRA+ ratios.                                                     *)
(***************************************************************************)
\* the resolved base learning rate of every family is set and not zero
BaseLrsNonZero == \A family \in Families : FamilyBaseLr(family) \notin {<<>>, <<0>>}

\* the down and up weights of the adapters in the collections
TrainableParams == UNION {FamilyParams(family, {"lora_down", "lora_up"}) : family \in Families}

\* every down and up weight is in exactly one returned group
EachParamOnce ==
    \A p \in TrainableParams : Cardinality({i \in 1..Len(out) : p \in out[i].params}) = 1

C24_EveryParameterOnce ==
    (pc = "prepared" /\ BaseLrsNonZero) => EachParamOnce

(***************************************************************************)
(* C24, amended.  Whenever the resolved base learning rate of every family *)
(* is non-zero and no family's LoRA+ ratio in effect (its own ratio, else  *)
(* the default) is 0, each down and up weight of every adapter in the      *)
(* collections is in exactly one returned group.  With a ratio of 0 in     *)
(* effect the family's up weights form a group of lr 0, which is not       *)
(* returned.                                                               *)
(***************************************************************************)
C24_EveryParameterOnceUnlessZeroRatio ==
    (pc = "prepared" /\ BaseLrsNonZero)
       => /\ (\A family \in Families : FamilyRatio(family) # <<0>>) => EachParamOnce
          /\ \A family \in Families :
                FamilyRatio(family) = <<0>>
                   => \A p \in FamilyParams(family, {"lora_up"}) :
                         \A i \in 1..Len(out) : p \notin out[i].params

\* all three families have adapters, two ratios are in effect and none is 0:
\* the groups of the text encoders and of the backbone split into plain and plus
C24_Witness ==
    /\ pc = "prepared"
    /\ BaseLrsNonZero
    /\ \A family \in Families : FamilyNames(family) # {} /\ FamilyRatio(family) = <<2>>
    /\ net.loraplus_lr_ratio = <<>>
    /\ Len(out) = 6
    /\ EachParamOnce

(***************************************************************************)
(* C25.  Original statement: on an inference-variant network, merge_to     *)
(* after apply_to has patched the layers fails with an error before any    *)
(* base-layer weight is modified, whereas backup_weights, pre_calculation  *)
(* and restore_weights remain usable after apply_to.                       *)
(***************************************************************************)
\* apply_to has patched a layer whose adapter is in the collections
SomePatched == \E a \in Targets(net) : ~lora[a].org_module

WeightsKept == \A n \in DOMAIN org : org'[n].weight = org[n].weight

\* restore_weights finds the flag and, where it has to restore, the snapshot
CanRestore ==
    \A a \in Targets(net) :
       /\ org[a].lora_restored # "unset"
       /\ org[a].lora_restored = "False" => org[a].has_org_weight

\* the three calls that go through org_module_ref do their work
RefCallsUsable ==
    /\ ret'.op = "backup_weights"
          => /\ ret'.err = "none"
             /\ \A a \in Targets(net) :
                   /\ org'[a].has_org_weight
                   /\ ~org[a].has_org_weight => org'[a].lora_org_weight = org[a].weight
    /\ ret'.op = "pre_calculation"
          => /\ ret'.err = "none"
             /\ \A a \in Targets(net) :
                   org'[a].weight = MatAdd(org[a].weight, FoldedDelta(lora[a]))
    /\ (ret'.op = "restore_weights" /\ CanRestore)
          => /\ ret'.err = "none"
             /\ \A a \in Targets(net) :
                   org'[a].weight = IF org[a].lora_restored = "False"
                                    THEN org[a].lora_org_weight ELSE org[a].weight

C25_MergeAfterApplyFails ==
    [][SomePatched
         => /\ ret'.op = "merge_to" => (ret'.err # "none" /\ WeightsKept)
            /\ RefCallsUsable]_vars

(***************************************************************************)
(* C25, amended.  merge_to after apply_to modifies no base-layer weight.   *)
(* It raises AttributeError when the dictionary keeps a family whose       *)
(* patched adapters are still in the collections; when the dictionary has  *)
(* no key of any family left in the collections, merge_to empties the      *)
(* collections and returns without error.  backup_weights, pre_calculation *)
(* and restore_weights remain usable after apply_to.                       *)
(***************************************************************************)
C25_MergeAfterApplyKeepsWeights ==
    [][SomePatched
         => /\ ret'.op = "merge_to"
                 => /\ WeightsKept
                    /\ Targets(net') # {} => ret'.err = "AttributeError"
                    /\ Targets(net') = {} => ret'.err = "none"
            /\ RefCallsUsable]_vars

\* merge_to has just failed on a network whose two layers are patched and
\* still hold their base weights
C25_Witness ==
    /\ ret.op = "merge_to"
    /\ ret.err = "AttributeError"
    /\ Targets(net) = LifeNames
    /\ \A a \in LifeNames :
          /\ ~lora[a].org_module
          /\ org[a].forward = "lora"
          /\ org[a].weight = LifeBaseWeight(a)

====
